---- MODULE Spec2Model ----
(***************************************************************************)
(* Model of the Optimus market-data feed: the retrying HTTP transport      *)
(* (core/http.py), and on top of it the endpoint fallback, the product     *)
(* catalog loader, the option auto-selection and the candle normalisation  *)
(* of datafeeds/delta_datafeed.py.                                         *)
(*                                                                         *)
(* Python values are modelled as tagged records, text that the code        *)
(* searches (startswith / contains / upper) as sequences of characters,    *)
(* times as whole minutes, and seconds of sleep as tenths of a second.     *)
(***************************************************************************)
EXTENDS Integers, Sequences, FiniteSets, TLC

VARIABLES
    \* ---- ResilientHTTP.get: one call in progress
    hpc,        \* "idle" | "loop" | "returned" | "raised"
    url,        \* the path requested (base_url is a fixed prefix)
    attempts,   \* the resolved attempts budget of the call
    i,          \* loop index of `for i in range(attempts)`
    last_exc,   \* last exception captured by the except clause
    hlog,       \* events of the call in order: requests (with outcome) and sleeps
    hret,       \* the response returned, or the exception raised
    wire,       \* every request put on the network, in order: the path requested
    server,     \* what the exchange may answer: the bodies of a 2xx answer for
                \* each kind of path, and the ways a request may fail
    \* ---- DeltaDataFeed._get_with_fallback: one call in progress
    fpc,        \* "idle" | "loop" | "wait" | "returned" | "raised"
    paths,      \* the candidate paths of the call
    fattempts,  \* the attempts argument handed on to http.get
    path_i,     \* loop index of `for i, path in enumerate(paths)`
    last_error, \* last exception recorded by the except clause
    flog,       \* how each path tried so far ended
    fret,       \* the parsed body returned, or the exception raised
    \* ---- DeltaDataFeed: the feed object and the last call made on it
    cfg,        \* the attributes __init__ reads from the environment
    now_utc,    \* the now_utc argument (the clock reading when it is omitted)
    tie_order,  \* how the installed numpy's default sort orders equal keys
    calls_left, \* how many more calls the feed's owner makes on it
    called,     \* the method called last, "" before the first call
    args,       \* the symbol and timeframe arguments of a candle call
    params,     \* the query a candle call built for its requests (line 246)
    outcome,    \* what the call returned, or the exception it raised
    logged,     \* the logger lines of the call that tell which branch ran
    selected    \* the "Auto-selected option" line: the row chosen and the spot

hvars == <<hpc, url, attempts, i, last_exc, hlog, hret, wire>>
fvars == <<fpc, paths, fattempts, path_i, last_error, flog, fret>>

dvars == <<cfg, now_utc, tie_order, calls_left, called, args, params, outcome, logged, selected>>

vars == <<hvars, server, fvars, dvars>>

\* ------------------------------------------------------------------ bounds
\* Largest attempts budget a direct caller of get passes.
MaxAttempts == 3
\* Largest attempts argument a direct caller of _get_with_fallback passes.
MaxFbAttempts == 2

\* ------------------------------------------------- ResilientHTTP.__init__
default_attempts == 3
\* seconds are counted in tenths: base_backoff = 0.4 s, max_sleep = 3.0 s
base_backoff == 4
max_sleep == 30
retry_on == {429, 500, 502, 503, 504}
no_retry_on == {400, 401, 403, 404}

\* ------------------------------------------------------------ Python values
None == [type |-> "None"]

HTTPError(status) == [type |-> "HTTPError", status |-> status]
NetworkError(name) == [type |-> name]
TransportFailure ==
    [type |-> "RuntimeError", msg |-> "HTTP GET failed without a successful response."]

Min(a, b) == IF a <= b THEN a ELSE b

\* ------------------------------------------------ what the network can answer
\* Status codes a server may answer with: success, a non-error status outside
\* both sets, a no-retry status, an error status outside both sets, a retry status.
StatusInputs == {200, 304, 404, 418, 503}
\* requests.RequestException subclasses raised by requests.get itself
NetworkExceptions == {"ConnectionError", "Timeout"}

\* JSON values
JNull == [j |-> "null"]
JNum(n) == [j |-> "num", v |-> n]
JStr(chars) == [j |-> "str", v |-> chars]
JList(items) == [j |-> "list", v |-> items]
JDict(members) == [j |-> "dict", v |-> members]

\* A response body: text that parses as JSON (with the value it parses to), or not.
NoBody == [json |-> FALSE]
JsonBody(data) == [json |-> TRUE, data |-> data]

CANDLE_PATHS == <<"/v3/public/candles", "/v2/public/candles", "/public/candles">>
PRODUCT_PATHS == <<"/v3/public/products", "/v2/public/products", "/public/products">>

Range(f) == {f[x] : x \in DOMAIN f}

\* Values of OPTIMUS_API_PATH_CANDLES / OPTIMUS_API_PATH_PRODUCTS: unset (the
\* default), one of the built-in fallbacks, a path of the operator's own.
CandlesPathInputs == {"/v3/public/candles", "/v2/public/candles", "/custom/candles"}
ProductsPathInputs == {"/v3/public/products", "/v2/public/products", "/custom/products"}

KindOf(u) ==
    IF u \in Range(CANDLE_PATHS) \cup CandlesPathInputs THEN "candles"
    ELSE IF u \in Range(PRODUCT_PATHS) \cup ProductsPathInputs THEN "products"
    ELSE "other"

Bodies(u) == server[KindOf(u)]

\* The ways a request may fail: a non-2xx answer, or an exception of requests.get.
Faults ==
    {[kind |-> "resp", status |-> s, body |-> NoBody] :
        s \in {x \in StatusInputs : ~(x >= 200 /\ x < 300)}}
    \cup {[kind |-> "exc", exc |-> NetworkError(n)] : n \in NetworkExceptions}

Outcomes(u) ==
    {[kind |-> "resp", status |-> s, body |-> b] :
        s \in {x \in StatusInputs : x >= 200 /\ x < 300}, b \in Bodies(u)}
    \cup server.faults

\* ------------------------------------------------------- ResilientHTTP.get
\* Response.raise_for_status raises HTTPError for 4xx and 5xx only.
RaisesForStatus(status) == status >= 400 /\ status < 600

IsSuccess(status) == 200 <= status /\ status < 300

\* Lines 34-37: whether a non-2xx status makes the try block raise.
StatusRaises(status) ==
    \/ (status \in no_retry_on /\ RaisesForStatus(status))
    \/ (status \notin retry_on /\ RaisesForStatus(status))

SleepsAfter_AlsoAfterLast(idx, n) == idx < n

\* Line 40: the backoff sleep is skipped after the final attempt.
SleepsAfter(idx, n) == idx < n - 1

\* Lines 41-42, in tenths of a second; jitter is random.uniform(0, base_backoff).
BackoffSleep(idx, jitter) == Min(max_sleep, base_backoff * (2 ^ idx) + jitter)

\* BackoffSleep grows with the jitter, so the two ends of uniform(0, base_backoff)
\* give the shortest and the longest sleep.
Jitters == {0, base_backoff}

\* Line 26: `attempts or self.default_attempts` (None and 0 are falsy).
ResolveAttempts(a, dflt) == IF a = 0 THEN dflt ELSE a

\* Lines 43-45.
ExhaustedException(exc) == IF exc # None THEN exc ELSE TransportFailure

CapturedAfter_KeepsFirst(out, exc) ==
    IF exc # None THEN exc
    ELSE IF out.kind = "exc" THEN out.exc
    ELSE IF (out.status \in no_retry_on \/ out.status \notin retry_on)
            /\ out.status >= 400 /\ out.status < 600
         THEN HTTPError(out.status)
    ELSE exc

\* What the except clause holds after the try block of one iteration.
CapturedAfter(out, exc) ==
    IF out.kind = "exc" THEN out.exc
    ELSE IF StatusRaises(out.status) THEN HTTPError(out.status)
    ELSE exc

HttpCall(u, a, dflt) ==
    /\ hpc' = "loop"
    /\ url' = u
    /\ attempts' = ResolveAttempts(a, dflt)
    /\ i' = 0
    /\ last_exc' = None
    /\ hlog' = <<>>
    /\ hret' = None

HttpAttempt_UnlistedFailsAtOnce ==
    /\ hpc = "loop"
    /\ i < attempts
    /\ \E out \in Outcomes(url), jitter \in Jitters :
         LET req == [e |-> "req", i |-> i, out |-> out] IN
         IF out.kind = "resp" /\ IsSuccess(out.status)
         THEN /\ hpc' = "returned"
              /\ hret' = out
              /\ hlog' = Append(hlog, req)
              /\ wire' = Append(wire, url)
              /\ UNCHANGED <<i, last_exc>>
         ELSE IF out.kind = "resp" /\ out.status \notin retry_on /\ out.status \notin no_retry_on
         THEN /\ hpc' = "raised"
              /\ hret' = HTTPError(out.status)
              /\ last_exc' = HTTPError(out.status)
              /\ hlog' = Append(hlog, req)
              /\ wire' = Append(wire, url)
              /\ UNCHANGED i
         ELSE /\ last_exc' = CapturedAfter(out, last_exc)
              /\ hlog' = IF SleepsAfter(i, attempts)
                         THEN hlog \o <<req, [e |-> "sleep", i |-> i,
                                              t |-> BackoffSleep(i, jitter)]>>
                         ELSE Append(hlog, req)
              /\ wire' = Append(wire, url)
              /\ i' = i + 1
              /\ UNCHANGED <<hpc, hret>>
    /\ UNCHANGED <<url, attempts, server, dvars, fvars>>

\* One iteration of `for i in range(attempts)`: the request, its
\* classification, and the backoff sleep that follows a failed attempt.
HttpAttempt ==
    /\ hpc = "loop"
    /\ i < attempts
    /\ \E out \in Outcomes(url), jitter \in Jitters :
         LET req == [e |-> "req", i |-> i, out |-> out] IN
         IF out.kind = "resp" /\ IsSuccess(out.status)
         THEN /\ hpc' = "returned"
              /\ hret' = out
              /\ hlog' = Append(hlog, req)
              /\ wire' = Append(wire, url)
              /\ UNCHANGED <<i, last_exc>>
         ELSE /\ last_exc' = CapturedAfter(out, last_exc)
              /\ hlog' = IF SleepsAfter(i, attempts)
                         THEN hlog \o <<req, [e |-> "sleep", i |-> i,
                                              t |-> BackoffSleep(i, jitter)]>>
                         ELSE Append(hlog, req)
              /\ wire' = Append(wire, url)
              /\ i' = i + 1
              /\ UNCHANGED <<hpc, hret>>
    /\ UNCHANGED <<url, attempts, server, dvars, fvars>>

\* After the loop: raise the last captured exception, else a RuntimeError.
HttpExhausted ==
    /\ hpc = "loop"
    /\ i >= attempts
    /\ hpc' = "raised"
    /\ hret' = ExhaustedException(last_exc)
    /\ UNCHANGED <<url, attempts, i, last_exc, hlog, wire, server, dvars, fvars>>

HttpIdle ==
    /\ hpc = "idle"
    /\ url = ""
    /\ attempts = 0
    /\ i = 0
    /\ last_exc = None
    /\ hlog = <<>>
    /\ hret = None
    /\ wire = <<>>

\* The call is over: its locals are gone.
HttpReturn ==
    /\ hpc' = "idle"
    /\ url' = ""
    /\ attempts' = 0
    /\ i' = 0
    /\ last_exc' = None
    /\ hlog' = <<>>
    /\ hret' = None

\* ------------------------------------- DeltaDataFeed._get_with_fallback
\* self.http = ResilientHTTP(..., default_attempts=2)
feed_default_attempts == 2

AppendMissing_All(list, more) == list \o more

RECURSIVE AppendMissing(_, _)
AppendMissing(list, more) ==
    IF more = <<>> THEN list
    ELSE AppendMissing(IF Head(more) \in Range(list) THEN list
                       ELSE Append(list, Head(more)),
                       Tail(more))

\* [primary] if primary else [], then every built-in path not already present.
CandidatePaths(primary, builtin) ==
    AppendMissing(IF primary # "" THEN <<primary>> ELSE <<>>, builtin)

JSONDecodeError == [type |-> "JSONDecodeError"]

AllEndpointsFailed_OnlyLastPath(tried, last) ==
    [type |-> "RuntimeError", msg |-> "All API endpoints failed.",
     tried |-> IF tried = <<>> THEN tried ELSE <<tried[Len(tried)]>>, last |-> last]

AllEndpointsFailed(tried, last) ==
    [type |-> "RuntimeError", msg |-> "All API endpoints failed.",
     tried |-> tried, last |-> last]

FbIdle ==
    /\ fpc = "idle"
    /\ paths = <<>>
    /\ fattempts = 0
    /\ path_i = 0
    /\ last_error = None
    /\ flog = <<>>
    /\ fret = None

FallbackCall(ps, a) ==
    /\ fpc' = "loop"
    /\ paths' = ps
    /\ fattempts' = a
    /\ path_i' = 0
    /\ last_error' = None
    /\ flog' = <<>>
    /\ fret' = None

\* Lines 167-173: the next path of the list is handed to http.get.
FbTry ==
    /\ fpc = "loop"
    /\ path_i < Len(paths)
    /\ HttpCall(paths[path_i + 1], fattempts, feed_default_attempts)
    /\ fpc' = "wait"
    /\ UNCHANGED <<wire, server, dvars, paths, fattempts, path_i, last_error, flog, fret>>

\* The error the try block of one path ends with, None if it ends in `return data`:
\* the exception http.get raised, or the one r.json() raises on a non-JSON body.
PathError(ret, raised) ==
    IF raised THEN ret
    ELSE IF ret.body.json THEN None
    ELSE JSONDecodeError

\* What the network did for the path just tried, as an observer sees it.
Observed ==
    IF hpc = "raised" THEN [path |-> url, how |-> "raised"]
    ELSE IF hret.body.json THEN [path |-> url, how |-> "json", body |-> hret.body]
    ELSE [path |-> url, how |-> "nonjson"]

FbHandle_NoReturn ==
    /\ fpc = "wait"
    /\ hpc \in {"returned", "raised"}
    /\ LET err == PathError(hret, hpc = "raised") IN
       /\ last_error' = IF err = None THEN last_error ELSE err
       /\ fret' = IF err = None THEN hret.body.data ELSE fret
       /\ path_i' = path_i + 1
       /\ fpc' = "loop"
    /\ flog' = Append(flog, Observed)
    /\ HttpReturn
    /\ UNCHANGED <<wire, server, dvars, paths, fattempts>>

\* Lines 173-184: http.get has returned or raised; r.json() parses the body;
\* `return data` on success, else the error is recorded and the loop goes on.
FbHandle ==
    /\ fpc = "wait"
    /\ hpc \in {"returned", "raised"}
    /\ LET err == PathError(hret, hpc = "raised") IN
       IF err = None
       THEN /\ fpc' = "returned"
            /\ fret' = hret.body.data
            /\ UNCHANGED <<path_i, last_error>>
       ELSE /\ last_error' = err
            /\ path_i' = path_i + 1
            /\ fpc' = "loop"
            /\ UNCHANGED fret
    /\ flog' = Append(flog, Observed)
    /\ HttpReturn
    /\ UNCHANGED <<wire, server, dvars, paths, fattempts>>

\* Lines 186-188: every path failed.
FbExhausted ==
    /\ fpc = "loop"
    /\ path_i >= Len(paths)
    /\ fpc' = "raised"
    /\ fret' = AllEndpointsFailed(paths, last_error)
    /\ UNCHANGED <<hvars, server, dvars, paths, fattempts, path_i, last_error, flog>>

\* ------------------------------------------------------------------- text
\* Python str operations on TLA+ strings.
Ch(s, k) == SubSeq(s, k, k)
LowerAlphabet == "abcdefghijklmnopqrstuvwxyz"
UpperAlphabet == "ABCDEFGHIJKLMNOPQRSTUVWXYZ"
Digits == "0123456789"

IndexIn(alphabet, c) ==
    IF \E k \in 1 .. Len(alphabet) : Ch(alphabet, k) = c
    THEN CHOOSE k \in 1 .. Len(alphabet) : Ch(alphabet, k) = c
    ELSE 0

\* str.upper and str.lower, letter by letter.
UpperOf == [c \in {Ch(LowerAlphabet, k) : k \in 1 .. Len(LowerAlphabet)} |->
               Ch(UpperAlphabet, IndexIn(LowerAlphabet, c))]
LowerOf == [c \in {Ch(UpperAlphabet, k) : k \in 1 .. Len(UpperAlphabet)} |->
               Ch(LowerAlphabet, IndexIn(UpperAlphabet, c))]

UpperChar(c) == IF c \in DOMAIN UpperOf THEN UpperOf[c] ELSE c
LowerChar(c) == IF c \in DOMAIN LowerOf THEN LowerOf[c] ELSE c

RECURSIVE Upper(_)
Upper(s) == IF s = "" THEN "" ELSE UpperChar(Ch(s, 1)) \o Upper(SubSeq(s, 2, Len(s)))

RECURSIVE Lower(_)
Lower(s) == IF s = "" THEN "" ELSE LowerChar(Ch(s, 1)) \o Lower(SubSeq(s, 2, Len(s)))

StartsWith(s, prefix) ==
    Len(prefix) <= Len(s) /\ SubSeq(s, 1, Len(prefix)) = prefix

Contains(s, sub) ==
    \E k \in 1 .. Len(s) - Len(sub) + 1 : SubSeq(s, k, k + Len(sub) - 1) = sub

ContainsNoCase(s, sub) == Contains(Lower(s), Lower(sub))

IsDigits(s) == s # "" /\ \A k \in 1 .. Len(s) : IndexIn(Digits, Ch(s, k)) > 0

RECURSIVE DigitsValue(_)
DigitsValue(s) ==
    IF s = "" THEN 0
    ELSE 10 * DigitsValue(SubSeq(s, 1, Len(s) - 1)) + (IndexIn(Digits, Ch(s, Len(s))) - 1)

\* A decimal integer literal, with an optional minus sign.
IsIntText(s) == IsDigits(s) \/ (Len(s) > 1 /\ Ch(s, 1) = "-" /\ IsDigits(SubSeq(s, 2, Len(s))))
IntOfText(s) == IF Ch(s, 1) = "-" THEN 0 - DigitsValue(SubSeq(s, 2, Len(s))) ELSE DigitsValue(s)

RECURSIVE TextOfNat(_)
TextOfNat(n) == IF n < 10 THEN Ch(Digits, n + 1)
                ELSE TextOfNat(n \div 10) \o Ch(Digits, (n % 10) + 1)
TextOfInt(n) == IF n < 0 THEN "-" \o TextOfNat(0 - n) ELSE TextOfNat(n)

\* ------------------------------------------------------ pandas, in small
\* Cells of a DataFrame: the JSON scalars, plus NaN (a missing value), NaT (a
\* missing time), +infinity, and the instants pd.to_datetime produces. A JSON
\* string holding an ISO-8601 time is JTime(t), t being the instant it denotes.
NaN == [j |-> "nan"]
NaT == [j |-> "nat"]
JInf == [j |-> "inf"]
JTime(t) == [j |-> "time", v |-> t]
Instant(t) == [j |-> "ts", v |-> t]

Raise(exc) == [raised |-> TRUE, exc |-> exc]
Return(value) == [raised |-> FALSE, value |-> value]
RuntimeError(msg) == [type |-> "RuntimeError", msg |-> msg]
\* bool(Series): "The truth value of a Series is ambiguous."
AmbiguousTruthValue == [type |-> "ValueError", msg |-> "The truth value of a Series is ambiguous."]
\* tz-naive datetime64 column compared with a tz-aware datetime
InvalidComparison == [type |-> "TypeError", msg |-> "Invalid comparison between dtype=datetime64[ns] and datetime"]
AttributeError == [type |-> "AttributeError"]
\* int("abc")
ValueError == [type |-> "ValueError", msg |-> "invalid literal for int() with base 10"]

\* pd.DataFrame(list of dicts): the columns are the keys of all rows, and a row
\* without a key holds NaN there.
Columns(items) == UNION {DOMAIN items[k] : k \in 1 .. Len(items)}
Cell(row, col) == IF col \in DOMAIN row THEN row[col] ELSE NaN
FrameEmpty(items) == items = <<>> \/ Columns(items) = {}

\* isna / notna / dropna
IsNA(c) == c.j \in {"null", "nan", "nat"}

\* pd.to_numeric(errors="coerce") of one cell
ToNumeric(c) ==
    IF c.j \in {"num", "inf"} THEN c
    ELSE IF c.j = "str" /\ IsIntText(c.v) THEN JNum(IntOfText(c.v))
    ELSE NaN

\* Series.astype(str) of one cell
AsStr(c) ==
    IF c.j = "str" THEN c.v
    ELSE IF c.j = "num" THEN TextOfInt(c.v)
    ELSE IF c.j = "null" THEN "None"
    ELSE IF c.j = "nan" THEN "nan"
    ELSE IF c.j = "inf" THEN "inf"
    ELSE IF c.j = "time" THEN "T" \o TextOfInt(c.v) \o "Z"
    ELSE "NaT"

\* Product times are whole minutes. A bare number is read by pd.to_datetime as
\* nanoseconds since 1970.
EpochNsToMinute(n) == (n \div 1000000000) \div 60

\* pd.to_datetime(utc=True, errors="coerce") of one cell
ToDatetime(c) ==
    IF c.j = "time" THEN Instant(c.v)
    ELSE IF c.j = "num" THEN Instant(EpochNsToMinute(c.v))
    ELSE NaT

\* Python truth value of a JSON value, and `a or b or c`
Truthy(v) ==
    IF v.j = "null" THEN FALSE
    ELSE IF v.j = "num" THEN v.v # 0
    ELSE IF v.j = "str" THEN v.v # ""
    ELSE IF v.j = "list" THEN v.v # <<>>
    ELSE IF v.j = "dict" THEN DOMAIN v.v # {}
    ELSE TRUE

RECURSIVE PyOr(_)
PyOr(vals) == IF Len(vals) = 1 \/ Truthy(Head(vals)) THEN Head(vals) ELSE PyOr(Tail(vals))

DictGet(d, k) == IF k \in DOMAIN d.v THEN d.v[k] ELSE JNull

\* --------------------------------------------- DeltaDataFeed._load_products
\* Line 365.
ProductItems(data) ==
    IF data.j = "list" THEN Return(data)
    ELSE IF data.j = "dict"
         THEN Return(PyOr(<<DictGet(data, "result"), DictGet(data, "data"),
                            DictGet(data, "products")>>))
    ELSE Raise(AttributeError)

EXPIRY_COLUMNS == <<"settle_time", "expiry_time", "expiration_time", "expiry", "expiry_at">>

\* Lines 405-408: the first expiry column present, "" if there is none.
ExpiryColumn(cols) ==
    IF \E k \in 1 .. Len(EXPIRY_COLUMNS) : EXPIRY_COLUMNS[k] \in cols
    THEN EXPIRY_COLUMNS[CHOOSE k \in 1 .. Len(EXPIRY_COLUMNS) :
                           /\ EXPIRY_COLUMNS[k] \in cols
                           /\ \A m \in 1 .. k - 1 : EXPIRY_COLUMNS[m] \notin cols]
    ELSE ""

\* `df.get(a) or df.get(b)` evaluates bool(Series) when column a exists.
SeriesOrRaises(cols) ==
    \/ "product_type" \in cols
    \/ ("strike_price" \notin cols /\ "strike" \in cols)
    \/ ("underlying" \notin cols
           /\ ("underlying_symbol" \in cols \/ "underlying_asset" \in cols))

\* Lines 393-394.
InferOptionType(product_type) ==
    IF ContainsNoCase(AsStr(product_type), "call") THEN JStr("call")
    ELSE IF ContainsNoCase(AsStr(product_type), "put") THEN JStr("put")
    ELSE JNull

\* Lines 386-413 for one row of a frame with columns cols.
NormalizeRow(row, cols) ==
    LET product_type == IF "type" \in cols THEN Cell(row, "type") ELSE JNull IN
    [product_id |-> ToNumeric(Cell(row, "product_id")),
     symbol |-> IF "symbol" \in cols THEN Cell(row, "symbol") ELSE JNull,
     product_type |-> product_type,
     underlying |-> IF "underlying" \in cols THEN Cell(row, "underlying")
                    ELSE IF "base_asset" \in cols THEN Cell(row, "base_asset")
                    ELSE JNull,
     option_type |-> IF "option_type" \in cols THEN Cell(row, "option_type")
                     ELSE InferOptionType(product_type),
     strike_price |-> IF "strike_price" \in cols THEN Cell(row, "strike_price")
                      ELSE ToNumeric(Cell(row, "strikePrice")),
     expiry_dt |-> IF ExpiryColumn(cols) # "" THEN ToDatetime(Cell(row, ExpiryColumn(cols)))
                   ELSE NaT]

\* Line 417: dropna(subset=[product_id, symbol, product_type], how="any").
Understood(r) == ~IsNA(r.product_id) /\ ~IsNA(r.symbol) /\ ~IsNA(r.product_type)

RECURSIVE MapRows(_, _)
MapRows(items, cols) ==
    IF items = <<>> THEN <<>>
    ELSE <<NormalizeRow(Head(items), cols)>> \o MapRows(Tail(items), cols)

\* Lines 365-420, given the body _get_with_fallback returned. The catalog is the
\* kept rows and whether expiry_dt is tz-aware (parsed with utc=True) or the
\* tz-naive column `pd.NaT` makes.
NormalizeProducts(data) ==
    LET found == ProductItems(data) IN
    IF found.raised THEN found
    ELSE IF found.value.j # "list"
    THEN Raise(RuntimeError("Products response does not contain a valid list of products"))
    ELSE LET items == found.value.v
             cols == Columns(items) IN
         IF FrameEmpty(items)
         THEN Raise(RuntimeError("Products list is empty - no instruments available"))
         ELSE IF SeriesOrRaises(cols) THEN Raise(AmbiguousTruthValue)
         ELSE Return([rows |-> SelectSeq(MapRows(items, cols), Understood),
                      tz |-> IF ExpiryColumn(cols) # "" THEN "UTC" ELSE "naive"])

\* Lines 355-363: what _load_products does with the outcome of _get_with_fallback.
LoadProducts(fb) ==
    IF fb.raised
    THEN Raise(RuntimeError("Failed to load products from any endpoint."))
    ELSE NormalizeProducts(fb.value)

\* ---------------------------------- DeltaDataFeed._auto_select_option_pid
\* Line 448.
IsOption(r) == ContainsNoCase(AsStr(r.product_type), "options")

\* Lines 463-465, with root and underlying already upper-cased.
MatchesRoot(r, root, underlying) ==
    \/ StartsWith(Upper(AsStr(r.symbol)), root \o "-")
    \/ Contains(Upper(AsStr(r.underlying)), root)
    \/ Contains(Upper(AsStr(r.underlying)), underlying)

\* timedelta(minutes=1), in minutes
GraceMinutes == 1

IsFuture_AnyDated(r, now) == ~IsNA(r.expiry_dt)

\* Lines 478-479.
IsFuture(r, now) == ~IsNA(r.expiry_dt) /\ r.expiry_dt.v >= now - GraceMinutes

NoOptionsListed == RuntimeError("Products list contains no options.")
NoMatchingRoot == RuntimeError("No options found for root / underlying.")
NoFutureExpiry == RuntimeError("No future/active option expiries found.")
SpotUnavailable == RuntimeError("Failed to obtain a valid underlying price for ATM selection.")
NoMatchingType == RuntimeError("No options of the preferred type available for selection.")

\* Lines 447-485: the three filters that precede the price probe.
FilterCandidates(catalog, option_root, underlying_symbol, now) ==
    LET opts == SelectSeq(catalog.rows, IsOption)
        root == Upper(option_root)
        underlying == Upper(underlying_symbol)
        InRoot(r) == MatchesRoot(r, root, underlying)
        rooted == SelectSeq(opts, InRoot)
        Future(r) == IsFuture(r, now)
        future == SelectSeq(rooted, Future)
    IN  IF opts = <<>> THEN Raise(NoOptionsListed)
        ELSE IF rooted = <<>> THEN Raise(NoMatchingRoot)
        ELSE IF catalog.tz = "naive" THEN Raise(InvalidComparison)
        ELSE IF future = <<>> THEN Raise(NoFutureExpiry)
        ELSE Return(future)

CheckedSpot_AllowsNonPositive(probe) ==
    IF probe.raised THEN Raise(SpotUnavailable)
    ELSE IF probe.value.j # "num" THEN Raise(SpotUnavailable)
    ELSE Return(probe.value.v)

\* Lines 488-498: the price probe's outcome, checked and wrapped.
CheckedSpot(probe) ==
    IF probe.raised THEN Raise(SpotUnavailable)
    ELSE IF probe.value.j # "num" \/ probe.value.v <= 0 THEN Raise(SpotUnavailable)
    ELSE Return(probe.value.v)

\* Lines 501-510.
PreferredType(df, pref) ==
    LET OfType(r) == Lower(AsStr(r.option_type)) = pref IN
    IF pref \in {"call", "put"} THEN SelectSeq(df, OfType) ELSE df

Abs(x) == IF x < 0 THEN 0 - x ELSE x

AbsDistance_MissingAsZero(r, spot) ==
    IF ToNumeric(r.strike_price).j = "num"
    THEN JNum(Abs(ToNumeric(r.strike_price).v - spot))
    ELSE JNum(0)

\* Line 520: |strike - spot|, NaN when the strike is not a number.
AbsDistance(r, spot) ==
    IF ToNumeric(r.strike_price).j = "num"
    THEN JNum(Abs(ToNumeric(r.strike_price).v - spot))
    ELSE IF ToNumeric(r.strike_price).j = "inf" THEN JInf
    ELSE NaN

\* a sorts before b in sort_values(["abs_d"]): NaN goes last.
CloserThan(a, b) ==
    IF a.j = "nan" THEN FALSE
    ELSE IF b.j = "nan" THEN TRUE
    ELSE IF a.j = "inf" THEN FALSE
    ELSE IF b.j = "inf" THEN TRUE
    ELSE a.v < b.v

NearestCohort_All(df) == df

\* Lines 513-515: the rows of the minimum expiry, in catalog order.
NearestExpiry(df) ==
    CHOOSE e \in {df[k].expiry_dt.v : k \in 1 .. Len(df)} :
        \A k \in 1 .. Len(df) : e <= df[k].expiry_dt.v

NearestCohort(df) ==
    LET AtNearest(r) == r.expiry_dt.v = NearestExpiry(df) IN SelectSeq(df, AtNearest)

BestIndex_First(cexp, spot) == 1

\* The orders a build of numpy may leave equal keys in: sort_values is called
\* without kind, so the sort is pandas' default "quicksort", which is not
\* promised to be stable. The order is the same on every call of one build.
TieOrders == {"kept", "reversed"}

\* Lines 520-522: the first row of the cohort sorted by distance, NaN last; of
\* the rows at the same distance the first or the last, as the build sorts.
BestIndex(cexp, spot) ==
    LET nearest == {k \in 1 .. Len(cexp) :
                      \A m \in 1 .. Len(cexp) :
                          ~CloserThan(AbsDistance(cexp[m], spot), AbsDistance(cexp[k], spot))}
    IN  CHOOSE k \in nearest :
            \A m \in nearest : IF tie_order = "kept" THEN k <= m ELSE k >= m

\* Lines 500-526: the preference filter and the choice.
ChooseOption(df, spot, pref) ==
    LET typed == PreferredType(df, pref) IN
    IF typed = <<>> THEN Raise(NoMatchingType)
    ELSE LET cexp == NearestCohort(typed)
             best == cexp[BestIndex(cexp, spot)]
         IN  Return([pid |-> best.product_id.v, best |-> best, candidates |-> typed])

\* ------------------------------------------------------ _ensure_ohlc_indexed
\* Candle times: a numeric timestamp cell JNum(v) stands for the epoch number
\* v * 10^9, and instants are counted in 10^6 seconds, so that epoch seconds and
\* epoch milliseconds of real size stay small numbers. An instant also carries
\* the nanoseconds pd.to_datetime gives a bare integer index.
CandleInstant(t, ns) == [j |-> "ts", v |-> t, ns |-> ns]

\* 1e12, on the scale of the timestamp cells
MsThreshold == 1000

\* Lines 21-26.
InferEpochUnit(x) == IF x.j = "inf" \/ (x.j = "num" /\ x.v > MsThreshold) THEN "ms" ELSE "s"

OHLC == <<"open", "high", "low", "close">>
TS_COLUMNS == <<"t", "time", "timestamp", "start_at", "date", "datetime", "start_time">>

Renamed_AsIs(col) == col

\* Lines 36-44: the three rename maps.
Renamed(col) ==
    IF col \in {"o", "open_price", "openPrice"} THEN "open"
    ELSE IF col \in {"h", "high_price", "highPrice"} THEN "high"
    ELSE IF col \in {"l", "low_price", "lowPrice"} THEN "low"
    ELSE IF col \in {"c", "close_price", "closePrice"} THEN "close"
    ELSE col

RenamedColumns(cols) == {Renamed(c) : c \in cols}

\* Two columns renamed to one name: out[name] is then a frame, not a series.
DuplicateColumns(cols) == \E a, b \in cols : a # b /\ Renamed(a) = Renamed(b)

\* The cell of a row under a (renamed) column name.
RenamedCell(row, name) ==
    IF \E c \in DOMAIN row : Renamed(c) = name
    THEN row[CHOOSE c \in DOMAIN row : Renamed(c) = name]
    ELSE NaN

\* Lines 47-50: the first timestamp column present, "" if there is none.
TimestampColumn(cols) ==
    IF \E k \in 1 .. Len(TS_COLUMNS) : TS_COLUMNS[k] \in cols
    THEN TS_COLUMNS[CHOOSE k \in 1 .. Len(TS_COLUMNS) :
                       /\ TS_COLUMNS[k] \in cols
                       /\ \A m \in 1 .. k - 1 : TS_COLUMNS[m] \notin cols]
    ELSE ""

\* Line 56: the column's dtype is a number type when it holds numbers and
\* missing values only.
IsNumericColumn(items, col) ==
    /\ \A k \in 1 .. Len(items) : RenamedCell(items[k], col).j \in {"num", "inf", "nan", "null"}
    /\ \E k \in 1 .. Len(items) : RenamedCell(items[k], col).j \in {"num", "inf"}

\* The largest epoch seconds a nanosecond timestamp holds is about 9.2e9: 9 on
\* the scale of the timestamp cells.
MaxEpochSeconds == 9

\* Line 58: pd.to_datetime(unit=..., errors="coerce") of one cell; a number of
\* seconds past the range of a timestamp is coerced to NaT.
EpochToInstant(c, unit) ==
    IF c.j # "num" THEN NaT
    ELSE IF unit = "ms" THEN CandleInstant(c.v, 0)
    ELSE IF c.v > MaxEpochSeconds THEN NaT
    ELSE CandleInstant(c.v * 1000, 0)

\* Line 60: pd.to_datetime without a unit; a bare number counts nanoseconds.
TextToInstant(c) ==
    IF c.j = "time" THEN CandleInstant(c.v, 0)
    ELSE IF c.j = "num" THEN CandleInstant(0, 0)
    ELSE NaT

\* a sorts before b in sort_index: NaT goes last.
EarlierThan(a, b) ==
    IF a.j = "nat" THEN FALSE
    ELSE IF b.j = "nat" THEN TRUE
    ELSE a.v < b.v \/ (a.v = b.v /\ a.ns < b.ns)

RECURSIVE InsertByIndex(_, _)
InsertByIndex(sorted, r) ==
    IF sorted = <<>> THEN <<r>>
    ELSE IF EarlierThan(r.ts, Head(sorted).ts) THEN <<r>> \o sorted
    ELSE <<Head(sorted)>> \o InsertByIndex(Tail(sorted), r)

\* sort_index: ascending, rows of equal index in their order.
RECURSIVE SortIndex(_)
SortIndex(rows) ==
    IF rows = <<>> THEN <<>>
    ELSE InsertByIndex(SortIndex(SubSeq(rows, 1, Len(rows) - 1)), rows[Len(rows)])

\* Lines 52-65 for the row at position k.
CandleRow(items, k, ts_col, unit) ==
    [ts |-> IF ts_col = "" THEN CandleInstant(0, k - 1)
            ELSE IF unit # "" THEN EpochToInstant(RenamedCell(items[k], ts_col), unit)
            ELSE TextToInstant(RenamedCell(items[k], ts_col)),
     open |-> ToNumeric(RenamedCell(items[k], "open")),
     high |-> ToNumeric(RenamedCell(items[k], "high")),
     low |-> ToNumeric(RenamedCell(items[k], "low")),
     close |-> ToNumeric(RenamedCell(items[k], "close"))]

RECURSIVE CandleRows(_, _, _, _)
CandleRows(items, k, ts_col, unit) ==
    IF k > Len(items) THEN <<>>
    ELSE <<CandleRow(items, k, ts_col, unit)>> \o CandleRows(items, k + 1, ts_col, unit)

\* Line 67: dropna() on the four price columns.
HasAllPrices(r) == ~IsNA(r.open) /\ ~IsNA(r.high) /\ ~IsNA(r.low) /\ ~IsNA(r.close)

KeyError == [type |-> "KeyError"]
NotASeries == [type |-> "TypeError", msg |-> "arg must be a list, tuple, 1-d array, or Series"]

\* Lines 29-67.
EnsureOhlcIndexed(items) ==
    IF FrameEmpty(items) THEN Return(<<>>)
    ELSE LET cols == RenamedColumns(Columns(items))
             ts_col == TimestampColumn(cols)
             unit == IF ts_col # "" /\ IsNumericColumn(items, ts_col)
                     THEN InferEpochUnit(RenamedCell(items[1], ts_col)) ELSE ""
             rows == CandleRows(items, 1, ts_col, unit)
         IN  IF DuplicateColumns(Columns(items)) THEN Raise(NotASeries)
             ELSE IF ~(Range(OHLC) \subseteq cols) THEN Raise(KeyError)
             ELSE Return(SelectSeq(IF ts_col = "" THEN rows ELSE SortIndex(rows), HasAllPrices))

\* Lines 271-276 and 578-583: the list of rows inside the response, if any.
CANDLE_KEYS == <<"result", "data", "candles", "items">>

CandlePayload(data) ==
    IF data.j = "list" THEN data.v
    ELSE IF data.j = "dict" /\ \E k \in 1 .. Len(CANDLE_KEYS) : DictGet(data, CANDLE_KEYS[k]).j = "list"
         THEN DictGet(data, CANDLE_KEYS[CHOOSE k \in 1 .. Len(CANDLE_KEYS) :
                               /\ DictGet(data, CANDLE_KEYS[k]).j = "list"
                               /\ \A m \in 1 .. k - 1 : DictGet(data, CANDLE_KEYS[m]).j # "list"]).v
    ELSE <<>>

\* ----------------------------------------- DeltaDataFeed._get_underlying_price
\* Lines 545-552: what must be configured before the probe is sent.
ProbeConfigError(symbol_param, explicit_perp_pid) ==
    IF symbol_param # "product_id" THEN None
    ELSE IF explicit_perp_pid = "" THEN RuntimeError("OPTIMUS_PERP_PRODUCT_ID is not set.")
    ELSE IF ~IsIntText(explicit_perp_pid) THEN ValueError
    ELSE None

\* Lines 568-593, given the outcome of _get_with_fallback: the last close.
UnderlyingPrice(fb) ==
    IF fb.raised THEN Raise(RuntimeError("Failed to fetch underlying price."))
    ELSE LET df == EnsureOhlcIndexed(CandlePayload(fb.value)) IN
         IF df.raised THEN df
         ELSE IF df.value = <<>>
         THEN Raise(RuntimeError("No candles returned for underlying price probe."))
         ELSE Return(df.value[Len(df.value)].close)

\* --------------------------------------- the feed's calls, from call to return
\* No feed object is in play: the transport or the fallback is called directly.
NoFeedCall ==
    /\ cfg = None
    /\ now_utc = 0
    /\ tie_order = "kept"
    /\ calls_left = 0
    /\ called = ""
    /\ args = None
    /\ params = None
    /\ outcome = None
    /\ logged = <<>>
    /\ selected = None

\* http.get(url, attempts=1) for one answer of the network: lines 26-45 of
\* core/http.py with a single iteration.
GetSingleAttempt(out) ==
    IF out.kind = "resp" /\ IsSuccess(out.status) THEN Return(out)
    ELSE Raise(ExhaustedException(CapturedAfter(out, None)))

\* _get(path, params, attempts=1): http.get, then r.json().
GetJson(out) ==
    LET r == GetSingleAttempt(out) IN
    IF r.raised THEN r
    ELSE IF PathError(r.value, FALSE) # None THEN Raise(PathError(r.value, FALSE))
    ELSE Return(r.value.body.data)

\* Every way _get_with_fallback(ps, params, attempts=1) can run from path k on,
\* lasts being the values last_error may hold there: its result and the requests
\* it puts on the network.
RECURSIVE FallbackRunsFrom(_, _, _)
FallbackRunsFrom(ps, k, lasts) ==
    IF k > Len(ps)
    THEN {[result |-> Raise(AllEndpointsFailed(ps, last)), requests |-> ps] : last \in lasts}
    ELSE LET ends == {GetJson(out) : out \in Outcomes(ps[k])}
             errors == {r.exc : r \in {e \in ends : e.raised}}
         IN  {[result |-> r, requests |-> SubSeq(ps, 1, k)] : r \in {e \in ends : ~e.raised}}
             \cup (IF errors = {} THEN {} ELSE FallbackRunsFrom(ps, k + 1, errors))

FallbackRuns(ps) == FallbackRunsFrom(ps, 1, {None})

\* Lines 350-353 and 563-566.
ProductPaths == CandidatePaths(cfg.products_path, PRODUCT_PATHS)
CandlePaths == CandidatePaths(cfg.candles_path, CANDLE_PATHS)

\* Every way _load_products can run.
LoadProductsRuns ==
    {[result |-> LoadProducts(run.result), requests |-> run.requests] :
        run \in FallbackRuns(ProductPaths)}

\* Every way _get_underlying_price can run: nothing is requested when the
\* configuration check of lines 545-552 raises.
UnderlyingPriceRuns ==
    LET err == ProbeConfigError(cfg.symbol_param, cfg.explicit_perp_pid) IN
    IF err # None THEN {[result |-> Raise(err), requests |-> <<>>]}
    ELSE {[result |-> UnderlyingPrice(run.result), requests |-> run.requests] :
            run \in FallbackRuns(CandlePaths)}

\* ----------------------------------------------- DeltaDataFeed._fetch_candles
\* Lines 205-211.
Interval(timeframe) == IF Lower(timeframe) \in {"1h", "1hr"} THEN "1h" ELSE "15m"

\* Line 218.
UNDERLYINGS == {"ETHUSD", "BTCUSD"}

\* Lines 227 and 240.
PerpPidNotSet == RuntimeError("Endpoint expects product_id but OPTIMUS_PERP_PRODUCT_ID is not set")
OptionPidNotSet == RuntimeError("Endpoint expects product_id for option candles, but no option product id is available")

\* Lines 223-231 and 234-244: the configured product id, if it is set and int()
\* reads it.
ConfiguredPid(pid, not_set) ==
    IF pid = "" THEN Raise(not_set)
    ELSE IF ~IsIntText(pid) THEN Raise(ValueError)
    ELSE Return(JNum(IntOfText(pid)))

SymbolValue_AsGiven(symbol) == Return(JStr(symbol))

SymbolValue_PerpPidForAll(symbol) ==
    IF cfg.symbol_param # "product_id" THEN Return(JStr(symbol))
    ELSE IF IsIntText(symbol) THEN Return(JNum(IntOfText(symbol)))
    ELSE ConfiguredPid(cfg.explicit_perp_pid, PerpPidNotSet)

\* Lines 213-244: the value sent under the symbol parameter.
SymbolValue(symbol) ==
    IF cfg.symbol_param # "product_id" THEN Return(JStr(symbol))
    ELSE IF IsIntText(symbol) THEN Return(JNum(IntOfText(symbol)))
    ELSE IF Upper(symbol) \in UNDERLYINGS THEN ConfiguredPid(cfg.explicit_perp_pid, PerpPidNotSet)
    ELSE ConfiguredPid(cfg.explicit_opt_pid, OptionPidNotSet)

FetchFailed == RuntimeError("Failed to fetch candles.")

\* Lines 260-290, given the outcome of _get_with_fallback.
FetchedCandles(fb) ==
    IF fb.raised THEN Raise(FetchFailed)
    ELSE EnsureOhlcIndexed(CandlePayload(fb.value))

\* Lines 268 and 281-288: what the call logs.
FetchLogged(result) ==
    IF result = Raise(FetchFailed) THEN <<"Failed to fetch candles">>
    ELSE IF ~result.raised /\ result.value = <<>> THEN <<"No candle data returned">>
    ELSE <<>>

\* Every way _fetch_candles(symbol, timeframe, start, end) can run (lines
\* 197-290): nothing is requested when lines 213-244 raise.
FetchCandlesRuns(symbol, timeframe) ==
    LET value == SymbolValue(symbol) IN
    IF value.raised
    THEN {[result |-> value, requests |-> <<>>, params |-> None, logged |-> <<>>]}
    ELSE {[result |-> FetchedCandles(run.result), requests |-> run.requests,
           params |-> [interval |-> Interval(timeframe), name |-> cfg.symbol_param,
                       value |-> value.value],
           logged |-> FetchLogged(FetchedCandles(run.result))] :
             run \in FallbackRuns(CandlePaths)}

\* Line 525.
AutoSelectedLine(best, spot) ==
    [symbol |-> best.symbol, pid |-> best.product_id.v, expiry |-> best.expiry_dt,
     strike |-> best.strike_price, spot |-> spot]

\* Lines 487-526, for one run of the price probe.
SelectWithSpot(df, probe, before) ==
    LET spot == CheckedSpot(probe.result)
        reqs == before \o probe.requests IN
    IF spot.raised THEN [result |-> spot, requests |-> reqs, selected |-> None]
    ELSE LET choice == ChooseOption(df, spot.value, cfg.option_type_pref) IN
         IF choice.raised THEN [result |-> choice, requests |-> reqs, selected |-> None]
         ELSE [result |-> Return(choice.value.pid), requests |-> reqs,
               selected |-> AutoSelectedLine(choice.value.best, spot.value)]

\* Every way _auto_select_option_pid(now) can run (lines 433-526).
AutoSelectRuns(now) ==
    LET probes == UnderlyingPriceRuns IN
    UNION {LET df == IF load.result.raised THEN load.result
                     ELSE FilterCandidates(load.result.value, cfg.option_root,
                                           cfg.underlying_symbol, now) IN
           IF df.raised
           THEN {[result |-> df, requests |-> load.requests, selected |-> None]}
           ELSE {SelectWithSpot(df.value, probe, load.requests) : probe \in probes} :
               load \in LoadProductsRuns}

\* Lines 422-430: the symbol of the first catalog row with this product id; ""
\* stands for the None returned when the catalog cannot be loaded or lists no
\* such row (line 324 treats both alike).
SymbolOf(load, pid) ==
    LET Is(r) == r.product_id = JNum(pid) IN
    IF load.raised \/ SelectSeq(load.value.rows, Is) = <<>> THEN ""
    ELSE AsStr(Head(SelectSeq(load.value.rows, Is)).symbol)

ReturnedFor_NoBestEffort(pid, sym) ==
    IF cfg.symbol_param = "product_id" THEN TextOfInt(pid) ELSE sym

\* Lines 319-327: what the auto-selected product id is returned as.
ReturnedFor(pid, sym) ==
    IF cfg.symbol_param = "product_id" THEN TextOfInt(pid)
    ELSE IF sym # "" THEN sym
    ELSE TextOfInt(pid)

\* Lines 314-339: the auto-selection branch and the fallback to the root.
PickAutoRuns(now) ==
    LET loads == LoadProductsRuns IN
    UNION {IF run.result.raised
           THEN {[result |-> Return(cfg.option_root), requests |-> run.requests,
                  selected |-> None,
                  logged |-> <<"Auto-selecting option instrument...", "Auto-select failed",
                               "Falling back to option root symbol">>]}
           ELSE IF cfg.symbol_param = "product_id"
           THEN {[result |-> Return(ReturnedFor(run.result.value, "")),
                  requests |-> run.requests, selected |-> run.selected,
                  logged |-> <<"Auto-selecting option instrument...">>]}
           ELSE {[result |-> Return(ReturnedFor(run.result.value,
                                                SymbolOf(load.result, run.result.value))),
                  requests |-> run.requests \o load.requests, selected |-> run.selected,
                  logged |-> <<"Auto-selecting option instrument...">>] :
                     load \in loads} :
               run \in AutoSelectRuns(now)}

ExplicitOverride_PidFirst(sym, pid) ==
    IF pid # "" THEN [kind |-> "pid", value |-> pid]
    ELSE IF sym # "" THEN [kind |-> "symbol", value |-> sym]
    ELSE [kind |-> "none"]

\* Lines 306-309: which explicit override applies, the symbol first.
ExplicitOverride(sym, pid) ==
    IF sym # "" THEN [kind |-> "symbol", value |-> sym]
    ELSE IF pid # "" THEN [kind |-> "pid", value |-> pid]
    ELSE [kind |-> "none"]

\* Every way pick_option_instrument(config, now) can run (lines 294-339).
PickRuns(now) ==
    LET explicit == ExplicitOverride(cfg.explicit_opt_symbol, cfg.explicit_opt_pid) IN
    IF explicit.kind = "symbol"
    THEN {[result |-> Return(explicit.value), requests |-> <<>>, selected |-> None,
           logged |-> <<"Using explicit option symbol">>]}
    ELSE IF explicit.kind = "pid"
    THEN {IF IsIntText(explicit.value)
          THEN [result |-> Return(explicit.value), requests |-> <<>>, selected |-> None,
                logged |-> <<"Using explicit option product ID">>]
          ELSE [result |-> Raise(ValueError), requests |-> <<>>, selected |-> None,
                logged |-> <<>>]}
    ELSE IF cfg.autodetect_option THEN PickAutoRuns(now)
    ELSE {[result |-> Return(cfg.option_root), requests |-> <<>>, selected |-> None,
           logged |-> <<"Falling back to option root symbol">>]}

PickOptionInstrument_KeepsChoice ==
    /\ cfg # None
    /\ calls_left > 0
    /\ calls_left' = calls_left - 1
    /\ \E run \in PickRuns(now_utc) :
          /\ called' = "pick_option_instrument"
          /\ outcome' = run.result
          /\ wire' = run.requests
          /\ logged' = run.logged
          /\ selected' = run.selected
          /\ cfg' = IF run.selected = None THEN cfg
                    ELSE [cfg EXCEPT !.explicit_opt_pid = TextOfInt(run.selected.pid)]
    /\ args' = None
    /\ params' = None
    /\ UNCHANGED <<hpc, url, attempts, i, last_exc, hlog, hret, server, fvars, now_utc, tie_order>>

\* A caller invokes feed.pick_option_instrument(config, now_utc).
PickOptionInstrument ==
    /\ cfg # None
    /\ calls_left > 0
    /\ calls_left' = calls_left - 1
    /\ \E run \in PickRuns(now_utc) :
          /\ called' = "pick_option_instrument"
          /\ outcome' = run.result
          /\ wire' = run.requests
          /\ logged' = run.logged
          /\ selected' = run.selected
    /\ args' = None
    /\ params' = None
    /\ UNCHANGED <<hpc, url, attempts, i, last_exc, hlog, hret, server, fvars, cfg, now_utc, tie_order>>

\* A caller invokes feed._auto_select_option_pid(now_utc).
AutoSelectOptionPid ==
    /\ cfg # None
    /\ calls_left > 0
    /\ calls_left' = calls_left - 1
    /\ \E run \in AutoSelectRuns(now_utc) :
          /\ called' = "_auto_select_option_pid"
          /\ outcome' = run.result
          /\ wire' = run.requests
          /\ logged' = <<>>
          /\ selected' = run.selected
    /\ args' = None
    /\ params' = None
    /\ UNCHANGED <<hpc, url, attempts, i, last_exc, hlog, hret, server, fvars, cfg, now_utc, tie_order>>

\* A caller invokes feed._load_products() (lines 342-420).
LoadProductsCalled ==
    /\ cfg # None
    /\ calls_left > 0
    /\ calls_left' = calls_left - 1
    /\ \E run \in LoadProductsRuns :
          /\ called' = "_load_products"
          /\ outcome' = run.result
          /\ wire' = run.requests
    /\ args' = None
    /\ params' = None
    /\ logged' = <<>>
    /\ selected' = None
    /\ UNCHANGED <<hpc, url, attempts, i, last_exc, hlog, hret, server, fvars, cfg, now_utc, tie_order>>

\* A caller invokes one of the two candle methods, both of which are
\* _fetch_candles(symbol, timeframe, start, end) (lines 191-290).
FetchCandles(method, symbol, timeframe) ==
    /\ cfg # None
    /\ calls_left > 0
    /\ calls_left' = calls_left - 1
    /\ \E run \in FetchCandlesRuns(symbol, timeframe) :
          /\ called' = method
          /\ args' = [symbol |-> symbol, timeframe |-> timeframe]
          /\ params' = run.params
          /\ outcome' = run.result
          /\ wire' = run.requests
          /\ logged' = run.logged
    /\ selected' = None
    /\ UNCHANGED <<hpc, url, attempts, i, last_exc, hlog, hret, server, fvars, cfg, now_utc, tie_order>>

\* Symbols candles are asked for: the underlying ticker in either case, an
\* option symbol, a product id.
SymbolInputs == {"ETHUSD", "ethusd", "ETH-2000-C", "42"}

TimeframeInputs == {"1h", "5m"}

GetOptionOhlcv ==
    \E symbol \in SymbolInputs, timeframe \in TimeframeInputs :
        FetchCandles("get_option_ohlcv", symbol, timeframe)

GetPerpOhlcv ==
    \E symbol \in SymbolInputs, timeframe \in TimeframeInputs :
        FetchCandles("get_perp_ohlcv", symbol, timeframe)

\* ------------------------------------------- specification: a direct get
InitHTTP ==
    /\ HttpIdle
    /\ FbIdle
    /\ NoFeedCall
    /\ server = [candles |-> {NoBody}, products |-> {NoBody}, other |-> {NoBody},
                 faults |-> Faults]

\* A caller invokes get(url, attempts=a); a = 0 stands for None.
GetCalled ==
    /\ hpc = "idle"
    /\ hret = None
    /\ \E a \in 0 .. MaxAttempts : HttpCall("/x", a, default_attempts)
    /\ UNCHANGED <<wire, server, dvars, fvars>>

NextHTTP == GetCalled \/ HttpAttempt \/ HttpExhausted

SpecHTTP == InitHTTP /\ [][NextHTTP]_vars

\* ------------------------- specification: a direct _get_with_fallback call
InitFallback ==
    /\ HttpIdle
    /\ FbIdle
    /\ NoFeedCall
    /\ server = [candles |-> {NoBody, JsonBody(JList(<<>>)), JsonBody(JDict([result |-> JList(<<>>)]))},
                 products |-> {NoBody, JsonBody(JList(<<>>))},
                 other |-> {NoBody}, faults |-> Faults]

\* A caller invokes _get_with_fallback(paths, params, attempts=a) with the
\* candidate list _fetch_candles or _load_products builds.
FallbackCalled ==
    /\ fpc = "idle"
    /\ \E ps \in {CandidatePaths(p, CANDLE_PATHS) : p \in CandlesPathInputs}
                \cup {CandidatePaths(p, PRODUCT_PATHS) : p \in ProductsPathInputs},
          a \in 0 .. MaxFbAttempts :
            FallbackCall(ps, a)
    /\ UNCHANGED <<hvars, server, dvars>>

NextFallback == FallbackCalled \/ FbTry \/ HttpAttempt \/ HttpExhausted \/ FbHandle \/ FbExhausted

SpecFallback == InitFallback /\ [][NextFallback]_vars

\* ------------------------------------------ specification: calls on a feed
\* The feed as __init__ leaves it with only the defaults of lines 106-124.
DefaultConfig ==
    [candles_path |-> "/v3/public/candles", products_path |-> "/v3/public/products",
     symbol_param |-> "product_id", underlying_symbol |-> "ETHUSD", option_root |-> "ETH",
     option_type_pref |-> "both", explicit_opt_symbol |-> "", explicit_opt_pid |-> "",
     explicit_perp_pid |-> "", autodetect_option |-> TRUE]

\* Environments that leave the choice to auto-selection: OPTIMUS_CANDLES_SYMBOL_PARAM,
\* OPTIMUS_OPTION_TYPE and OPTIMUS_PERP_PRODUCT_ID set or not.
AutoConfigs ==
    {[DefaultConfig EXCEPT !.symbol_param = sp, !.option_type_pref = pref,
                           !.explicit_perp_pid = perp] :
        sp \in {"product_id", "symbol"}, pref \in {"both", "call", "put"},
        perp \in {"", "3136"}}

\* Environments with OPTIMUS_OPTION_SYMBOL, OPTIMUS_OPTION_PRODUCT_ID (numeric
\* or not) and OPTIMUS_AUTO_SELECT set or not.
OverrideConfigs ==
    {[DefaultConfig EXCEPT !.explicit_opt_symbol = sym, !.explicit_opt_pid = pid,
                           !.autodetect_option = auto, !.explicit_perp_pid = "3136"] :
        sym \in {"", "ETH-2000-C"}, pid \in {"", "42", "abc"}, auto \in BOOLEAN}

\* A product of the exchange's listing.
Listed(id, symbol, type, strike, settle) ==
    [product_id |-> JNum(id), symbol |-> JStr(symbol), type |-> JStr(type),
     strike_price |-> strike, settle_time |-> settle]

\* Products a listing is made of. Times are minutes: the calls below are made at
\* minute 1000 or later, 5320 is three days after minute 1000, 15400 ten days.
ProductInputs ==
    {Listed(1, "ETH-2000-C", "call_options", JNum(2000), JTime(5320)),
     Listed(2, "ETH-2400-C", "call_options", JNum(2400), JTime(5320)),
     Listed(3, "ETH-2200-P", "put_options", JNum(2200), JTime(15400)),
     Listed(4, "ETH-2100-C", "call_options", JStr("2100"), JTime(400)),
     Listed(5, "BTC-30000-C", "call_options", JNum(30000), JTime(5320)),
     Listed(6, "ETH-MV-P", "put_options", JNull, JTime(5320)),
     [product_id |-> JNum(7), symbol |-> JStr("ETHUSD"), type |-> JStr("perpetual_futures")],
     [product_id |-> JNum(8), symbol |-> JStr("ETH-1900-P"), type |-> JStr("put_options"),
      strike_price |-> JNum(1900)]}

\* Largest number of products in a listing.
MaxRows == 3

\* Listings of up to MaxRows products, each product listed once.
Listings ==
    {l \in UNION {[1 .. n -> ProductInputs] : n \in 0 .. MaxRows} :
        \A a, b \in 1 .. Len(l) : l[a] = l[b] => a = b}

\* The listing every request is run against when the network may fail.
SmallListing ==
    <<Listed(3, "ETH-2200-P", "put_options", JNum(2200), JTime(15400)),
      Listed(1, "ETH-2000-C", "call_options", JNum(2000), JTime(5320))>>

\* The clock: three days before the near expiry, one minute after it (inside the
\* grace of line 479), two minutes after it.
NowInputs == {1000, 5321, 5322}

\* One hourly candle of the underlying whose close is the spot price.
Candle(t, close) ==
    [time |-> JNum(t), open |-> JNum(close), high |-> JNum(close), low |-> JNum(close),
     close |-> JNum(close)]

\* What the candles endpoint may answer the price probe with.
ProbeBodies ==
    {JsonBody(JList(<<Candle(1, 2050)>>)),
     JsonBody(JDict([result |-> JList(<<Candle(1, 2350)>>)])),
     JsonBody(JDict([result |-> JList(<<Candle(1, 2100), Candle(2, 2200)>>)])),
     JsonBody(JList(<<>>))}

\* Answers whose last close is no price: zero, negative, infinite.
BadProbeBodies ==
    {JsonBody(JList(<<Candle(1, 0)>>)),
     JsonBody(JList(<<Candle(1, 0 - 50)>>)),
     JsonBody(JList(<<[Candle(1, 2050) EXCEPT !.close = JInf]>>))}

\* Environments of the feeds that are run against every listing: the option type
\* preference varies.
ListingConfigs ==
    {[DefaultConfig EXCEPT !.option_type_pref = pref, !.explicit_perp_pid = "3136"] :
        pref \in {"both", "call", "put"}}

\* The listings in which rows can tie: those of the products that expire
\* together, at minute 5320.
TiedListings ==
    {l \in Listings : \A k \in 1 .. Len(l) : /\ "settle_time" \in DOMAIN l[k]
                                              /\ l[k].settle_time = JTime(5320)}

\* Either the network answers every request and the listing is any listing; or
\* the build sorts equal keys the other way round and the listing is one in
\* which rows can tie; or requests may fail, the listing is the small one, and
\* the environment is any.
InitFeed ==
    /\ HttpIdle
    /\ FbIdle
    /\ calls_left = 1
    /\ called = ""
    /\ args = None
    /\ params = None
    /\ outcome = None
    /\ logged = <<>>
    /\ selected = None
    /\ \/ /\ cfg \in ListingConfigs
          /\ now_utc \in NowInputs
          /\ tie_order = "kept"
          /\ \E listing \in Listings :
                server = [candles |-> ProbeBodies, products |-> {JsonBody(JList(listing))},
                          other |-> {NoBody}, faults |-> {}]
       \/ /\ cfg \in ListingConfigs
          /\ now_utc = 1000
          /\ tie_order \in TieOrders \ {"kept"}
          /\ \E listing \in TiedListings :
                server = [candles |-> ProbeBodies, products |-> {JsonBody(JList(listing))},
                          other |-> {NoBody}, faults |-> {}]
       \/ /\ cfg \in AutoConfigs \cup OverrideConfigs
          /\ now_utc = 1000
          /\ tie_order = "kept"
          /\ server = [candles |-> ProbeBodies,
                       products |-> {JsonBody(JList(SmallListing)), NoBody},
                       other |-> {NoBody}, faults |-> Faults]

NextFeed == PickOptionInstrument \/ AutoSelectOptionPid

SpecFeed == InitFeed /\ [][NextFeed]_vars

\* ------------------------------------ specification: loading the catalog
\* Rows a products response may carry: a complete product; a second product
\* under the same id; rows that lack the symbol, hold a null symbol, a
\* non-numeric id, no type, or an empty symbol; a product whose type comes under
\* the key product_type; a product whose id is a numeric text.
RawProductInputs ==
    {Listed(1, "ETH-2000-C", "call_options", JNum(2000), JTime(5320)),
     Listed(1, "ETH-2400-C", "call_options", JNum(2400), JTime(5320)),
     [product_id |-> JNum(2), type |-> JStr("put_options")],
     [product_id |-> JNum(3), symbol |-> JNull, type |-> JStr("put_options")],
     [product_id |-> JStr("abc"), symbol |-> JStr("ETH-2100-C"), type |-> JStr("call_options")],
     [product_id |-> JNum(4), symbol |-> JStr("ETH-2200-P")],
     [product_id |-> JNum(5), symbol |-> JStr(""), type |-> JStr("put_options")],
     [product_id |-> JNum(6), symbol |-> JStr("ETH-2300-P"), product_type |-> JStr("put_options")],
     [product_id |-> JStr("7"), symbol |-> JStr("ETHUSD"), type |-> JStr("perpetual_futures")]}

\* Largest number of rows in a products response.
MaxRawRows == 2

RawListings == UNION {[1 .. n -> RawProductInputs] : n \in 0 .. MaxRawRows}

\* The JSON documents that may carry a listing: the bare list, the list under
\* one of the keys of line 365, the list under a later key while an earlier key
\* holds something else, and documents with no list at all.
RawPayloads ==
    UNION {{JList(rows),
            JDict([result |-> JList(rows)]),
            JDict([data |-> JList(rows)]),
            JDict([products |-> JList(rows)]),
            JDict([data |-> JNull, products |-> JList(rows)]),
            JDict([result |-> JStr("success"), data |-> JList(rows)]),
            JDict([result |-> JList(<<>>), products |-> JList(rows)])} : rows \in RawListings}
    \cup {JDict([error |-> JStr("bad_request")]), JStr("OK"), JNull}

InitCatalog ==
    /\ HttpIdle
    /\ FbIdle
    /\ calls_left = 1
    /\ called = ""
    /\ args = None
    /\ params = None
    /\ outcome = None
    /\ logged = <<>>
    /\ selected = None
    /\ now_utc = 1000
    /\ tie_order = "kept"
    /\ cfg = DefaultConfig
    /\ \E payload \in RawPayloads, faults \in {{}, Faults} :
          server = [candles |-> {NoBody}, products |-> {JsonBody(payload)},
                    other |-> {NoBody}, faults |-> faults]

NextCatalog == LoadProductsCalled

SpecCatalog == InitCatalog /\ [][NextCatalog]_vars

\* ------------------------------ specification: selection and its price probe
\* Listings that pass the filters, and listings that fail one of them: no
\* product, no option, no option of the root, no option still to expire.
ProbeListings ==
    {SmallListing,
     <<>>,
     <<[product_id |-> JNum(7), symbol |-> JStr("ETHUSD"), type |-> JStr("perpetual_futures")]>>,
     <<Listed(5, "BTC-30000-C", "call_options", JNum(30000), JTime(5320))>>,
     <<Listed(4, "ETH-2100-C", "call_options", JStr("2100"), JTime(400))>>}

\* Any environment, any of these listings, a network whose requests may fail
\* and whose candles may carry no price.
InitProbe ==
    /\ HttpIdle
    /\ FbIdle
    /\ calls_left = 1
    /\ called = ""
    /\ args = None
    /\ params = None
    /\ outcome = None
    /\ logged = <<>>
    /\ selected = None
    /\ now_utc = 1000
    /\ tie_order = "kept"
    /\ cfg \in AutoConfigs \cup OverrideConfigs
    /\ \E listing \in ProbeListings :
          server = [candles |-> ProbeBodies \cup BadProbeBodies,
                    products |-> {JsonBody(JList(listing)), NoBody},
                    other |-> {NoBody}, faults |-> Faults]

NextProbe == PickOptionInstrument \/ AutoSelectOptionPid

SpecProbe == InitProbe /\ [][NextProbe]_vars

\* --------------------------------------- specification: fetching candles
\* One raw candle in the exchange's short keys. Times are epoch milliseconds on
\* the scale of the timestamp cells: 1701 stands for 1.701e12 ms.
ShortCandle(t, open, close) ==
    [t |-> t, o |-> JNum(open), h |-> JNum(open + 20), l |-> JNum(open - 20), c |-> close]

\* Candles a response may carry: three plain ones, two of them of the same
\* time; one with a null time; one whose close is a numeric text; one whose
\* close is null; one whose time is in epoch seconds.
RawCandleInputs ==
    {ShortCandle(JNum(1702), 2000, JNum(2010)),
     ShortCandle(JNum(1701), 2100, JNum(2110)),
     ShortCandle(JNum(1701), 2200, JNum(2190)),
     ShortCandle(JNull, 2300, JNum(2310)),
     ShortCandle(JNum(1703), 2400, JStr("2410")),
     ShortCandle(JNum(1704), 2500, JNull),
     ShortCandle(JNum(2), 2600, JNum(2610))}

\* Largest number of candles in a response.
MaxCandles == 2

ShortListings == UNION {[1 .. n -> RawCandleInputs] : n \in 0 .. MaxCandles}

\* The same candle, and the same list of candles, under the keys timestamp,
\* open, high, low, close.
LongCandle(row) ==
    [timestamp |-> row.t, open |-> row.o, high |-> row.h, low |-> row.l, close |-> row.c]

LongListing(rows) == [k \in 1 .. Len(rows) |-> LongCandle(rows[k])]

\* The JSON documents the candles endpoint may answer with: a list of candles in
\* either set of keys, bare or under a wrapper key, and documents that hold no
\* list.
ListDocuments ==
    UNION {{JList(rows), JList(LongListing(rows)), JDict([result |-> JList(rows)]),
            JDict([candles |-> JList(LongListing(rows))])} : rows \in ShortListings}

\* A candle with no close, alone in the list and after a whole candle.
PartialCandle == [t |-> JNum(1705), o |-> JNum(2700), h |-> JNum(2720), l |-> JNum(2680)]

PartialDocuments ==
    {JList(<<PartialCandle>>),
     JList(<<ShortCandle(JNum(1702), 2000, JNum(2010)), PartialCandle>>)}

NoListDocuments ==
    {JDict([error |-> JStr("bad_request")]), JDict([result |-> JNull]),
     JDict([result |-> JDict([count |-> JNum(0)])]), JStr("OK"), JNull}

\* Environments of a feed asked for candles: OPTIMUS_CANDLES_SYMBOL_PARAM,
\* OPTIMUS_PERP_PRODUCT_ID and OPTIMUS_OPTION_PRODUCT_ID set or not.
CandleConfigs ==
    {[DefaultConfig EXCEPT !.symbol_param = sp, !.explicit_perp_pid = perp,
                           !.explicit_opt_pid = opt] :
        sp \in {"product_id", "symbol"}, perp \in {"", "3136"}, opt \in {"", "42", "abc"}}

\* Either the network answers every request, with any document, and the feed
\* has what it needs configured; or the environment is any, requests may fail,
\* and the document is one of two.
InitCandles ==
    /\ HttpIdle
    /\ FbIdle
    /\ calls_left = 1
    /\ called = ""
    /\ args = None
    /\ params = None
    /\ outcome = None
    /\ logged = <<>>
    /\ selected = None
    /\ now_utc = 1000
    /\ tie_order = "kept"
    /\ \/ /\ cfg \in {c \in CandleConfigs : c.explicit_perp_pid = "3136" /\ c.explicit_opt_pid = "42"}
          /\ \E doc \in ListDocuments \cup PartialDocuments \cup NoListDocuments :
                server = [candles |-> {JsonBody(doc)}, products |-> {NoBody},
                          other |-> {NoBody}, faults |-> {}]
       \/ /\ cfg \in CandleConfigs
          /\ \E doc \in {JList(<<ShortCandle(JNum(1702), 2000, JNum(2010))>>),
                          JDict([error |-> JStr("bad_request")])},
                faults \in {{}, Faults} :
                server = [candles |-> {JsonBody(doc)}, products |-> {NoBody},
                          other |-> {NoBody}, faults |-> faults]

NextCandles == GetOptionOhlcv \/ GetPerpOhlcv

SpecCandles == InitCandles /\ [][NextCandles]_vars

\* -------------------------------------------------- reading a call on a feed
\* The listing the products endpoint serves, as _load_products normalises it.
ListingBody == CHOOSE b \in server.products : b.json
Catalog == NormalizeProducts(ListingBody.data)

NoExplicitOverride == cfg.explicit_opt_symbol = "" /\ cfg.explicit_opt_pid = ""

AutoSelectionRan == "Auto-selecting option instrument..." \in Range(logged)

\* C6: with no explicit option symbol or product id, pick_option_instrument
\* either raises, or returns the product auto-selection chose; it returns nothing
\* when auto-selection is disabled or has failed.
C6_NeverFallsBackToDefault ==
    (called = "pick_option_instrument" /\ NoExplicitOverride)
        => \/ outcome.raised
           \/ /\ cfg.autodetect_option
              /\ selected # None
              /\ outcome.value \in {TextOfInt(selected.pid), AsStr(selected.symbol)}

\* What C7 expects of a call made with an explicit override.
ExplicitReturned ==
    /\ outcome = Return(IF cfg.explicit_opt_symbol # "" THEN cfg.explicit_opt_symbol
                        ELSE cfg.explicit_opt_pid)
    /\ wire = <<>>
    /\ selected = None
    /\ ~AutoSelectionRan

\* C7 as stated: with an explicit option symbol or product id configured,
\* pick_option_instrument returns it (the symbol first), without auto-selection
\* and without any HTTP request.
C7_AnyExplicitOverrideReturned ==
    (called = "pick_option_instrument" /\ ~NoExplicitOverride) => ExplicitReturned

\* C7, amended: an explicit option symbol, or else an explicit product id that
\* is a decimal integer, is returned (the symbol first), without auto-selection
\* and without any HTTP request, even when auto-select is enabled; an explicit
\* product id that is not a number, with no symbol set, makes the call raise
\* ValueError, again without auto-selection and without any HTTP request.
C7_ExplicitOverrideReturned ==
    (called = "pick_option_instrument" /\ ~NoExplicitOverride)
        => IF cfg.explicit_opt_symbol # "" \/ IsIntText(cfg.explicit_opt_pid)
           THEN ExplicitReturned
           ELSE /\ outcome = Raise(ValueError)
                /\ wire = <<>>
                /\ selected = None
                /\ ~AutoSelectionRan

\* Symbol and product id both set, auto-select enabled: the symbol is returned.
C7_Witness ==
    /\ called = "pick_option_instrument"
    /\ cfg.autodetect_option
    /\ cfg.explicit_opt_symbol = "ETH-2000-C"
    /\ cfg.explicit_opt_pid = "42"
    /\ outcome = Return("ETH-2000-C")
    /\ wire = <<>>

\* A catalog row passes all the selection filters.
Eligible(r) ==
    /\ IsOption(r)
    /\ MatchesRoot(r, Upper(cfg.option_root), Upper(cfg.underlying_symbol))
    /\ IsFuture(r, now_utc)
    /\ cfg.option_type_pref \in {"call", "put"}
          => Lower(AsStr(r.option_type)) = cfg.option_type_pref

EligibleRows == {r \in Range(Catalog.value.rows) : Eligible(r)}

HasStrike(r) == ToNumeric(r.strike_price).j = "num"
Distance(r, spot) == Abs(ToNumeric(r.strike_price).v - spot)

\* C8: the product auto-selection chose is one of the rows that pass all the
\* filters; no such row expires earlier; and among the rows of its expiry that
\* have a strike, none is strictly closer to the spot price (a row without a
\* strike is chosen only when no row of that expiry has one).
C8_NearestExpiryThenClosestStrike ==
    selected # None =>
        LET passing == EligibleRows IN
        \E best \in passing :
            /\ selected = AutoSelectedLine(best, selected.spot)
            /\ \A r \in passing : best.expiry_dt.v <= r.expiry_dt.v
            /\ \A r \in passing :
                  (r.expiry_dt = best.expiry_dt /\ HasStrike(r))
                      => /\ HasStrike(best)
                         /\ Distance(best, selected.spot) <= Distance(r, selected.spot)

\* Strikes 2000 and 2400 expiring in three days, strike 2200 in ten, spot 2050:
\* the three-day strike-2000 product is chosen, not the closer 2200.
C8_Witness ==
    /\ called = "_auto_select_option_pid"
    /\ now_utc = 1000
    /\ cfg.option_type_pref = "both"
    /\ selected # None
    /\ {r.product_id.v : r \in EligibleRows} = {1, 2, 3}
    /\ selected.spot = 2050
    /\ selected.pid = 1
    /\ selected.strike = JNum(2000)
    /\ selected.expiry = Instant(5320)
    /\ outcome = Return(1)

\* The option rows of a catalog that was loaded.
OptionRows == {r \in Range(Catalog.value.rows) : IsOption(r)}

\* C9: once the catalog is loaded, the filters run in the order option type,
\* root, future expiry, spot price, type preference, and the first one that
\* leaves no rows ends the call with its own error: NoOptionsListed,
\* NoMatchingRoot, NoFutureExpiry, SpotUnavailable, NoMatchingType.
C9_FiltersInOrderWithOwnErrors ==
    (called = "_auto_select_option_pid" /\ server.faults = {} /\ ~Catalog.raised)
        => LET options == OptionRows
               rooted == {r \in options : MatchesRoot(r, Upper(cfg.option_root),
                                                       Upper(cfg.underlying_symbol))}
               future == {r \in rooted : IsFuture(r, now_utc)}
               passing == {r \in future : Eligible(r)} IN
           IF options = {} THEN outcome = Raise(NoOptionsListed)
           ELSE IF rooted = {} THEN outcome = Raise(NoMatchingRoot)
           ELSE IF future = {} THEN outcome = Raise(NoFutureExpiry)
           ELSE IF passing = {}
                THEN outcome \in {Raise(SpotUnavailable), Raise(NoMatchingType)}
           ELSE outcome = Raise(SpotUnavailable) \/ (~outcome.raised /\ selected # None)

\* C10: whatever the price probe answers, auto-selection on the same catalog at
\* the same time chooses a product of the same expiry, and for the same spot
\* price the same product.
C10_SameExpiryForEverySpot ==
    (called = "_auto_select_option_pid" /\ selected # None)
        => \A run \in AutoSelectRuns(now_utc) :
              run.selected # None
                  => /\ run.selected.expiry = selected.expiry
                     /\ run.selected.spot = selected.spot => run.selected = selected

\* Spot 2050 chooses strike 2000; at spot 2350 the same call chooses strike 2400
\* of the same expiry.
C10_Witness ==
    /\ called = "_auto_select_option_pid"
    /\ selected # None
    /\ selected.spot = 2050
    /\ selected.strike = JNum(2000)
    /\ \E run \in AutoSelectRuns(now_utc) :
          /\ run.selected # None
          /\ run.selected.spot = 2350
          /\ run.selected.strike = JNum(2400)
          /\ run.selected.expiry = selected.expiry
    /\ \E r \in Range(Catalog.value.rows) : Eligible(r) /\ r.expiry_dt # selected.expiry

\* The catalog rows the selected line was taken from.
SelectedRows ==
    {r \in Range(Catalog.value.rows) :
        /\ r.product_id = JNum(selected.pid)
        /\ r.symbol = selected.symbol
        /\ r.expiry_dt = selected.expiry
        /\ r.strike_price = selected.strike}

\* C11: the product auto-selection returns is a catalog row whose type names
\* options and whose symbol or underlying matches the configured root or
\* underlying; its expiry is a time, not a missing value, and is not earlier than
\* one minute before the current time; and when the preference is call or put,
\* its option type is the preferred one.
C11_SelectedPassesHardFilters ==
    selected # None =>
        /\ selected.expiry.j = "ts"
        /\ selected.expiry.v + GraceMinutes >= now_utc
        /\ \E r \in SelectedRows :
              /\ ContainsNoCase(AsStr(r.product_type), "options")
              /\ \/ StartsWith(Upper(AsStr(r.symbol)), Upper(cfg.option_root) \o "-")
                 \/ Contains(Upper(AsStr(r.underlying)), Upper(cfg.option_root))
                 \/ Contains(Upper(AsStr(r.underlying)), Upper(cfg.underlying_symbol))
              /\ cfg.option_type_pref = "call" => Lower(AsStr(r.option_type)) = "call"
              /\ cfg.option_type_pref = "put" => Lower(AsStr(r.option_type)) = "put"

\* One minute after the near expiry with puts preferred: of a call and a put of
\* that expiry and a call long expired, the put is selected.
C11_Witness ==
    /\ called = "_auto_select_option_pid"
    /\ now_utc = 5321
    /\ cfg.option_type_pref = "put"
    /\ selected # None
    /\ {r.product_id.v : r \in Range(Catalog.value.rows)} = {1, 4, 6}
    /\ selected.pid = 6
    /\ selected.expiry = Instant(5320)
    /\ outcome = Return(6)

\* C23: of the rows that pass the filters, expire with the chosen product and
\* are as far from the spot price as it is, the chosen one comes first in the
\* catalog.
C23_TieGoesToFirstInCatalog ==
    selected # None =>
        LET rows == Catalog.value.rows
            Tied(k) == /\ Eligible(rows[k])
                       /\ rows[k].expiry_dt = selected.expiry
                       /\ AbsDistance(rows[k], selected.spot)
                            = AbsDistance([strike_price |-> selected.strike], selected.spot)
        IN  \A k \in 1 .. Len(rows) :
                Tied(k) => \E j \in 1 .. k : AutoSelectedLine(rows[j], selected.spot) = selected

\* A row passes the option, root and future-expiry filters.
PassesHardFilters(r) ==
    /\ IsOption(r)
    /\ MatchesRoot(r, Upper(cfg.option_root), Upper(cfg.underlying_symbol))
    /\ IsFuture(r, now_utc)

\* What _get_underlying_price gave is no price: it raised, or the value is not
\* finite, or not positive.
BadPrice(p) == p.raised \/ p.value.j # "num" \/ p.value.v <= 0

IsSuffix(s, t) == Len(s) <= Len(t) /\ s = SubSeq(t, Len(t) - Len(s) + 1, Len(t))

\* C24: auto-selection requests candles only when the catalog has a row that
\* passes the option, root and future-expiry filters; and a call that got as far
\* as the price is explained by one run of the price probe whose requests end
\* the wire: when that run gave no price (it raised, or the value is not finite
\* or not positive) the call raised SpotUnavailable and chose nothing, otherwise
\* it did not raise SpotUnavailable and a product chosen was chosen for that price.
C24_SpotAfterFiltersAndChecked ==
    called = "_auto_select_option_pid" =>
        /\ (\E k \in 1 .. Len(wire) : KindOf(wire[k]) = "candles")
              => /\ ~Catalog.raised
                 /\ \E r \in Range(Catalog.value.rows) : PassesHardFilters(r)
        /\ outcome = Raise(SpotUnavailable) => selected = None
        /\ (selected # None \/ outcome \in {Raise(SpotUnavailable), Raise(NoMatchingType)})
              => \E probe \in UnderlyingPriceRuns :
                    /\ IsSuffix(probe.requests, wire)
                    /\ BadPrice(probe.result) <=> outcome = Raise(SpotUnavailable)
                    /\ selected # None => selected.spot = probe.result.value.v

\* The first candles path answered the probe with a document, and yet there is
\* no price: the selection failed with SpotUnavailable.
C24_Witness ==
    /\ called = "_auto_select_option_pid"
    /\ cfg.symbol_param = "symbol"
    /\ wire = <<"/v3/public/products", "/v3/public/candles">>
    /\ outcome = Raise(SpotUnavailable)
    /\ selected = None

\* C25: a pick_option_instrument whose auto-selection chose a product returns
\* the product id as text when the candle parameter is product_id, with no
\* request after the selection's own; when the parameter is symbol, the wire
\* ends with the requests of one more catalog load, and the call returns the
\* symbol that load lists for the id, or the product id as text when the load
\* failed or lists no such id. It never raises.
C25_ReturnsIdOrLookedUpSymbol ==
    (called = "pick_option_instrument" /\ selected # None) =>
        IF cfg.symbol_param = "product_id"
        THEN /\ outcome = Return(TextOfInt(selected.pid))
             /\ KindOf(wire[Len(wire)]) = "candles"
        ELSE \E load \in LoadProductsRuns :
                /\ IsSuffix(load.requests, wire)
                /\ LET sym == SymbolOf(load.result, selected.pid) IN
                   outcome = Return(IF sym # "" THEN sym ELSE TextOfInt(selected.pid))

\* The candle parameter is symbol, product 1 was chosen, every request of the
\* lookup's catalog load failed: the product id comes back.
C25_Witness ==
    /\ called = "pick_option_instrument"
    /\ cfg.symbol_param = "symbol"
    /\ selected # None
    /\ selected.pid = 1
    /\ Len(wire) >= 5
    /\ SubSeq(wire, Len(wire) - 2, Len(wire)) = PRODUCT_PATHS
    /\ outcome = Return("1")

\* C29: when the product auto-selection chose has no numeric strike, no row
\* that passes the filters and expires with it has one.
C29_StrikelessOnlyWhenCohortStrikeless ==
    (selected # None /\ ToNumeric(selected.strike).j # "num")
        => \A r \in EligibleRows : r.expiry_dt = selected.expiry => ~HasStrike(r)

\* Puts preferred, the only put of the nearest expiry has no strike: it is
\* chosen, although a call of the same expiry has one.
C29_Witness ==
    /\ called = "_auto_select_option_pid"
    /\ cfg.option_type_pref = "put"
    /\ selected # None
    /\ selected.pid = 6
    /\ selected.strike = JNull
    /\ \E r \in Range(Catalog.value.rows) :
          r.product_id.v = 1 /\ r.expiry_dt = selected.expiry /\ HasStrike(r)

\* --------------------------- specification: several calls on the same feed
\* Largest number of calls made on a feed.
MaxCalls == 2

\* Environments of the feed that is called repeatedly.
CallConfigs ==
    {[DefaultConfig EXCEPT !.symbol_param = sp, !.explicit_perp_pid = perp] :
        sp \in {"product_id", "symbol"}, perp \in {"", "3136"}}

\* A feed whose owner makes up to MaxCalls calls, one after the other, at the
\* same clock reading, on a network that answers every request.
InitCalls ==
    /\ HttpIdle
    /\ FbIdle
    /\ calls_left = MaxCalls
    /\ called = ""
    /\ args = None
    /\ params = None
    /\ outcome = None
    /\ logged = <<>>
    /\ selected = None
    /\ now_utc = 1000
    /\ tie_order = "kept"
    /\ cfg \in CallConfigs
    /\ server = [candles |-> {JsonBody(JList(<<Candle(1, 2050)>>)),
                              JsonBody(JDict([result |-> JList(<<Candle(1, 2350)>>)]))},
                 products |-> {JsonBody(JList(SmallListing))},
                 other |-> {NoBody}, faults |-> {}]

NextCalls ==
    \/ PickOptionInstrument
    \/ AutoSelectOptionPid
    \/ LoadProductsCalled
    \/ GetOptionOhlcv
    \/ GetPerpOhlcv

SpecCalls == InitCalls /\ [][NextCalls]_vars

\* What a call of a method can return or raise on the feed as it is.
ResultsOf(method, a) ==
    IF method = "pick_option_instrument" THEN {run.result : run \in PickRuns(now_utc)}
    ELSE IF method = "_auto_select_option_pid" THEN {run.result : run \in AutoSelectRuns(now_utc)}
    ELSE IF method = "_load_products" THEN {run.result : run \in LoadProductsRuns}
    ELSE {run.result : run \in FetchCandlesRuns(a.symbol, a.timeframe)}

\* C19: a call on the feed, the first or a later one, leaves every attribute set
\* at construction as it was, and what it returns or raises is what the same
\* call can return or raise on the feed as it was before the call: it does not
\* depend on the calls made earlier.
C19_CallsLeaveFeedUnchanged ==
    [][cfg' = cfg /\ outcome' \in ResultsOf(called', args')]_vars

\* A second call on the same feed, an auto-selection that chose a product: the
\* feed still has no explicit option configured.
C19_Witness ==
    /\ calls_left = 0
    /\ called = "pick_option_instrument"
    /\ selected # None
    /\ outcome = Return("1")
    /\ cfg \in CallConfigs
    /\ cfg.explicit_opt_pid = ""

\* ------------------------------------------------- reading a candle call
CandleMethods == {"get_option_ohlcv", "get_perp_ohlcv"}

\* The document the candles endpoint serves, and the list of candles in it.
CandleBody == CHOOSE b \in server.candles : b.json
ServedCandles == CandlePayload(CandleBody.data)

\* A candle call that got an answer from the candles endpoint.
CandlesAnswered ==
    /\ called \in CandleMethods
    /\ wire # <<>>
    /\ outcome # Raise(FetchFailed)

\* C15: the candles a candle call returns are in strictly increasing order of
\* time: each has a time, and a later row has a later time than the row before.
C15_StrictlyIncreasingTimestamps ==
    (called \in CandleMethods /\ ~outcome.raised) =>
        \A k \in 1 .. Len(outcome.value) - 1 :
            LET a == outcome.value[k].ts
                b == outcome.value[k + 1].ts IN
            /\ a.j = "ts"
            /\ b.j = "ts"
            /\ a.v < b.v \/ (a.v = b.v /\ a.ns < b.ns)

\* Candles in the short keys t, o, h, l, c with epoch-millisecond times.
IsShortMs(items) ==
    /\ items # <<>>
    /\ \A k \in 1 .. Len(items) :
          /\ DOMAIN items[k] = {"t", "o", "h", "l", "c"}
          /\ items[k].t.j = "num"
          /\ items[k].t.v > MsThreshold

\* C16: candles served with epoch-millisecond times under t and prices under
\* o, h, l, c come back as the series that the same candles under timestamp,
\* open, high, low, close normalise to: the same times, prices and order.
C16_ShortKeysSameAsLongKeys ==
    (CandlesAnswered /\ IsShortMs(ServedCandles))
        => outcome = EnsureOhlcIndexed(LongListing(ServedCandles))

\* Two candles served newest first in short keys: returned oldest first, with
\* the times and prices the long keys give.
C16_Witness ==
    /\ CandlesAnswered
    /\ ServedCandles = <<ShortCandle(JNum(1702), 2000, JNum(2010)),
                         ShortCandle(JNum(1701), 2100, JNum(2110))>>
    /\ outcome = Return(<<[ts |-> CandleInstant(1701, 0), open |-> JNum(2100),
                           high |-> JNum(2120), low |-> JNum(2080), close |-> JNum(2110)],
                          [ts |-> CandleInstant(1702, 0), open |-> JNum(2000),
                           high |-> JNum(2020), low |-> JNum(1980), close |-> JNum(2010)]>>)
    /\ outcome = EnsureOhlcIndexed(LongListing(ServedCandles))

\* C17: when the candles endpoint answers with a document that holds no list of
\* candles, neither itself a list nor a list under a wrapper key, the candle call
\* raises instead of returning a series.
C17_NoListPayloadRaises ==
    (CandlesAnswered /\ CandleBody.data.j # "list"
        /\ (CandleBody.data.j = "dict"
               => \A k \in 1 .. Len(CANDLE_KEYS) : DictGet(CandleBody.data, CANDLE_KEYS[k]).j # "list"))
        => outcome.raised

\* The product id a candle call needs configured for its symbol.
NeededPid ==
    IF Upper(args.symbol) \in {"ETHUSD", "BTCUSD"} THEN cfg.explicit_perp_pid
    ELSE cfg.explicit_opt_pid

\* C18: with the symbol parameter product_id, a symbol that is not a number and
\* the product id it needs not configured (the perpetual's for an underlying
\* ticker, the option's otherwise), the candle call raises the configuration
\* error for that id and sends no request.
C18_MissingPidFailsBeforeAnyRequest ==
    (called \in CandleMethods /\ cfg.symbol_param = "product_id"
        /\ ~IsIntText(args.symbol) /\ NeededPid = "")
        => /\ outcome = Raise(IF Upper(args.symbol) \in {"ETHUSD", "BTCUSD"}
                              THEN PerpPidNotSet ELSE OptionPidNotSet)
           /\ wire = <<>>
           /\ params = None

\* Candles of the underlying asked for in lower case, the option id configured
\* but not the perpetual's, on a network that answers: the call raises.
C18_Witness ==
    /\ called = "get_perp_ohlcv"
    /\ args.symbol = "ethusd"
    /\ cfg.symbol_param = "product_id"
    /\ cfg.explicit_perp_pid = ""
    /\ cfg.explicit_opt_pid = "42"
    /\ server.faults = {}
    /\ outcome = Raise(PerpPidNotSet)
    /\ wire = <<>>

\* Candles in the short keys whose times are all numbers.
IsShortNumeric(items) ==
    /\ items # <<>>
    /\ \A k \in 1 .. Len(items) :
          DOMAIN items[k] = {"t", "o", "h", "l", "c"} /\ items[k].t.j = "num"

\* The instant a numeric time stands for when its unit is read off its own
\* value: milliseconds above 1e12, seconds otherwise.
OwnInstant(c) ==
    IF c.v > MsThreshold THEN CandleInstant(c.v, 0) ELSE CandleInstant(c.v * 1000, 0)

\* The raw candle has a number, or a text that reads as one, in each price.
HasRawPrices(row) ==
    \A c \in {"o", "h", "l", "c"} : ToNumeric(row[c]).j \in {"num", "inf"}

\* C26: the times of the candles returned for a payload of numeric times are
\* the instants the raw times stand for, each read in the unit its own value
\* tells: milliseconds above 1e12, seconds otherwise.
C26_EachTimestampByItsOwnValue ==
    (CandlesAnswered /\ ~outcome.raised /\ IsShortNumeric(ServedCandles))
        => {r.ts : r \in Range(outcome.value)}
             = {OwnInstant(row.t) : row \in {x \in Range(ServedCandles) : HasRawPrices(x)}}

\* Candles in the short keys, some of which may lack a price.
IsShortKeyed(items) ==
    /\ items # <<>>
    /\ \A k \in 1 .. Len(items) :
          "t" \in DOMAIN items[k] /\ DOMAIN items[k] \subseteq {"t", "o", "h", "l", "c"}

\* The raw candle has each of the four prices, as a number or a numeric text.
IsWholeCandle(row) ==
    \A c \in {"o", "h", "l", "c"} :
        c \in DOMAIN row /\ ToNumeric(row[c]).j \in {"num", "inf"}

\* C27: a candle call answered with candles in the short keys does not raise;
\* it returns one candle for each raw candle that has its four prices as
\* numbers, and every candle returned has four numeric prices.
C27_RowsWithoutPricesAreDropped ==
    (CandlesAnswered /\ IsShortKeyed(ServedCandles))
        => /\ ~outcome.raised
           /\ Len(outcome.value)
                = Cardinality({k \in 1 .. Len(ServedCandles) : IsWholeCandle(ServedCandles[k])})
           /\ \A r \in Range(outcome.value) :
                 \A c \in Range(OHLC) : r[c].j \in {"num", "inf"}

\* C28: every candle a candle call returns has a time that is an instant; a
\* raw candle whose time is null or cannot be read is not among them.
C28_EveryCandleHasTimestamp ==
    (called \in CandleMethods /\ ~outcome.raised)
        => \A r \in Range(outcome.value) : r.ts.j = "ts"

\* C30: with the symbol parameter product_id, a candle call that sends a
\* request sends, under product_id, the number a numeric symbol reads as, and
\* for a symbol that is neither a number nor an underlying ticker the
\* configured option product id, whatever the symbol.
C30_OptionCandlesCarryConfiguredPid ==
    (called \in CandleMethods /\ cfg.symbol_param = "product_id" /\ wire # <<>>)
        => /\ params.name = "product_id"
           /\ IsIntText(args.symbol) => params.value = JNum(IntOfText(args.symbol))
           /\ (~IsIntText(args.symbol) /\ Upper(args.symbol) \notin {"ETHUSD", "BTCUSD"})
                 => params.value = JNum(IntOfText(cfg.explicit_opt_pid))

\* Candles asked for the option symbol ETH-2000-C with option product id 42 and
\* perpetual product id 3136 configured: the request carries product_id 42.
C30_Witness ==
    /\ called \in CandleMethods
    /\ cfg.symbol_param = "product_id"
    /\ cfg.explicit_opt_pid = "42"
    /\ cfg.explicit_perp_pid = "3136"
    /\ args.symbol = "ETH-2000-C"
    /\ wire # <<>>
    /\ params.name = "product_id"
    /\ params.value = JNum(42)

\* ------------------------------------------------- reading a catalog load
\* _load_products was called and an endpoint answered it.
CatalogAnswered ==
    /\ called = "_load_products"
    /\ outcome # Raise(RuntimeError("Failed to load products from any endpoint."))

\* The keys a products response may wrap its list under.
WRAPPER_KEYS == <<"result", "data", "products">>

\* The list of products C12 describes: the document itself when it is a list,
\* else the value of the first wrapper key whose value is a list, else nothing.
ListPayload(data) ==
    IF data.j = "list" THEN data
    ELSE IF data.j = "dict" /\ \E k \in 1 .. Len(WRAPPER_KEYS) : DictGet(data, WRAPPER_KEYS[k]).j = "list"
         THEN DictGet(data, WRAPPER_KEYS[CHOOSE k \in 1 .. Len(WRAPPER_KEYS) :
                               /\ DictGet(data, WRAPPER_KEYS[k]).j = "list"
                               /\ \A m \in 1 .. k - 1 : DictGet(data, WRAPPER_KEYS[m]).j # "list"])
    ELSE JNull

\* The error of line 367.
SchemaError == RuntimeError("Products response does not contain a valid list of products")

\* C12: _load_products builds the catalog from the response when it is a list,
\* or else from the value of the first of the keys result, data, products whose
\* value is a list; a response with no such list ends the call with the schema
\* error.
C12_FirstListPayloadOrSchemaError ==
    CatalogAnswered =>
        LET items == ListPayload(ListingBody.data) IN
        IF items.j = "list" THEN outcome = NormalizeProducts(items)
        ELSE outcome = Raise(SchemaError)

NonEmptyText(c) == c.j = "str" /\ c.v # ""

\* What a raw row gives as id and type, and whether it resolves all of id,
\* symbol and type.
RawId(row) == ToNumeric(Cell(row, "product_id"))
RawType(row) == IF "product_type" \in DOMAIN row THEN row.product_type ELSE Cell(row, "type")
Resolves(row) ==
    /\ RawId(row).j = "num"
    /\ NonEmptyText(Cell(row, "symbol"))
    /\ NonEmptyText(RawType(row))

\* C13: from a non-empty list of raw rows, _load_products returns a catalog
\* holding exactly the rows that resolve an id, a non-empty symbol and a
\* non-empty type, in their order and with those values; the other rows are
\* dropped and the call does not raise.
C13_UnresolvedRowsDropped ==
    (CatalogAnswered /\ ListingBody.data.j = "list" /\ ListingBody.data.v # <<>>) =>
        /\ ~outcome.raised
        /\ LET kept == SelectSeq(ListingBody.data.v, Resolves)
               rows == outcome.value.rows IN
           /\ Len(rows) = Len(kept)
           /\ \A k \in 1 .. Len(kept) :
                 /\ rows[k].product_id = RawId(kept[k])
                 /\ rows[k].symbol = kept[k].symbol
                 /\ rows[k].product_type = RawType(kept[k])

\* C14: in a catalog _load_products returns, every option row has a product id
\* and no two option rows have the same one.
C14_OptionRowsHaveUniqueIds ==
    (called = "_load_products" /\ ~outcome.raised) =>
        LET rows == outcome.value.rows IN
        \A j, k \in 1 .. Len(rows) :
            (IsOption(rows[j]) /\ IsOption(rows[k]))
                => /\ rows[j].product_id.j = "num"
                   /\ j # k => rows[j].product_id # rows[k].product_id

\* Position of a path in the candidate list (0 if it is not in it).
PathIndex(u) == IF \E n \in 1 .. Len(paths) : paths[n] = u
                THEN CHOOSE n \in 1 .. Len(paths) : paths[n] = u
                ELSE 0

PathFailed(entry) == entry.how \in {"raised", "nonjson"}

\* C4: requests go to the candidate paths in list order; a path is requested
\* only when every path before it has failed (http.get raised, or the body was
\* not JSON); the call returns the parsed body of the first path that answers
\* with JSON, and no request follows that answer.
C4_FallbackInOrderShortCircuit ==
    /\ \A k \in 1 .. Len(wire) :
          LET n == PathIndex(wire[k]) IN
          /\ n >= 1
          /\ k = 1 => n = 1
          /\ k > 1 => n \in {PathIndex(wire[k - 1]), PathIndex(wire[k - 1]) + 1}
          /\ Len(flog) >= n - 1
          /\ \A m \in 1 .. n - 1 : PathFailed(flog[m])
    /\ \A m \in 1 .. Len(flog) :
          /\ flog[m].path = paths[m]
          /\ ~PathFailed(flog[m]) =>
                /\ m = Len(flog)
                /\ fpc = "returned"
                /\ fret = flog[m].body.data
                /\ wire[Len(wire)] = paths[m]
    /\ fpc = "returned" => (flog # <<>> /\ ~PathFailed(flog[Len(flog)]))

\* Paths [A, B, C]: A failed, B answered, C was never requested.
C4_Witness ==
    /\ fpc = "returned"
    /\ Len(paths) = 3
    /\ Len(flog) = 2
    /\ PathFailed(flog[1])
    /\ fret = flog[2].body.data
    /\ Range(wire) = {paths[1], paths[2]}

\* The state part of C5.
AggregatedErrorShape ==
    /\ fpc = "raised" =>
          /\ Len(flog) = Len(paths)
          /\ \A m \in 1 .. Len(paths) : flog[m].path = paths[m] /\ PathFailed(flog[m])
          /\ Range(wire) = Range(paths)
          /\ fret.type = "RuntimeError"
          /\ fret.tried = paths
          /\ fret.last = last_error
    /\ (fpc = "loop" /\ Len(flog) = Len(paths) /\ \A m \in 1 .. Len(flog) : PathFailed(flog[m]))
          => (ENABLED FbExhausted /\ ~ENABLED FbTry)

\* The step part of C5: a path's failure leaves its own error as the last error.
LastErrorIsLatestFailure ==
    (Len(flog') = Len(flog) + 1 /\ PathFailed(flog'[Len(flog')]))
        => last_error' = (IF hpc = "raised" THEN hret ELSE JSONDecodeError)

\* C5: when every candidate path has failed, and only then, the call raises one
\* RuntimeError that names the whole candidate list, each path of which has
\* been tried, and the error of the path that failed last.
C5_AllFailedAggregatedError ==
    [](AggregatedErrorShape) /\ [][LastErrorIsLatestFailure]_vars

\* Four candidate paths, failing in both ways, the last one by a 404.
C5_Witness ==
    /\ fpc = "raised"
    /\ Len(paths) = 4
    /\ flog[1].how = "nonjson"
    /\ flog[2].how = "raised"
    /\ fret.tried = paths
    /\ fret.last = HTTPError(404)

\* ------------------------------------------------- reading the call's events
IsReq(ev) == ev.e = "req"
IsSleep(ev) == ev.e = "sleep"
Requests == SelectSeq(hlog, IsReq)
Sleeps == SelectSeq(hlog, IsSleep)
ReqSucceeded(ev) == ev.out.kind = "resp" /\ ev.out.status >= 200 /\ ev.out.status <= 299
ReqStatus(ev) == IF ev.out.kind = "resp" THEN ev.out.status ELSE 0

\* C1: a response whose status is in the no-retry set ends the call at once:
\* no backoff sleep and no further request follows it (so a call whose first
\* answer is such a status makes exactly one request and zero sleeps), and the
\* call fails with the HTTP error of that status.
C1_NoRetryStatusFailsAtOnce ==
    \A k \in 1 .. Len(hlog) :
        (IsReq(hlog[k]) /\ ReqStatus(hlog[k]) \in no_retry_on)
            => /\ k = Len(hlog)
               /\ hpc # "returned"
               /\ hpc = "raised" => hret = HTTPError(ReqStatus(hlog[k]))

\* C2: when get returns, the returned response is the 2xx answer of the k-th
\* request (k <= attempts), the k-1 requests before it failed and each was
\* followed by exactly one backoff sleep, nothing follows the successful
\* request, and no sleep is ever performed after the final attempt.
C2_RetryThenSuccess ==
    /\ hpc = "returned" =>
          LET k == Len(Requests) IN
          /\ k >= 1 /\ k <= attempts
          /\ Len(hlog) = 2 * k - 1
          /\ hlog[Len(hlog)] = Requests[k]
          /\ ReqSucceeded(Requests[k])
          /\ hret = Requests[k].out
          /\ Len(Sleeps) = k - 1
          /\ \A j \in 1 .. k - 1 :
                /\ ~ReqSucceeded(Requests[j])
                /\ hlog[2 * j - 1] = Requests[j]
                /\ IsSleep(hlog[2 * j])
    /\ \A j \in 1 .. Len(hlog) : IsSleep(hlog[j]) => hlog[j].i < attempts - 1
    /\ Len(Requests) <= attempts

\* 503, 503, 200 with three attempts: three requests and two sleeps.
C2_Witness ==
    /\ hpc = "returned"
    /\ attempts = 3
    /\ Len(Requests) = 3
    /\ Len(Sleeps) = 2
    /\ ReqStatus(Requests[1]) = 503
    /\ ReqStatus(Requests[2]) = 503
    /\ hret.status = 200

\* A status that is neither 2xx nor in the retry set nor in the no-retry set.
Unlisted(status) ==
    /\ ~(status >= 200 /\ status <= 299)
    /\ status \notin retry_on
    /\ status \notin no_retry_on

\* C20: a response with an unlisted status, received while attempts remain, does
\* not end the call: the backoff sleep follows it, and after the sleep the next
\* request; until that request is made, the only step the call can take is
\* another attempt.
C20_UnlistedStatusIsRetried ==
    \A k \in 1 .. Len(hlog) :
        (IsReq(hlog[k]) /\ hlog[k].out.kind = "resp" /\ Unlisted(hlog[k].out.status)
            /\ hlog[k].i < attempts - 1)
            => /\ k < Len(hlog)
               /\ IsSleep(hlog[k + 1])
               /\ IF k + 1 = Len(hlog)
                  THEN hpc = "loop" /\ ENABLED HttpAttempt /\ ~ENABLED HttpExhausted
                  ELSE IsReq(hlog[k + 2]) /\ hlog[k + 2].i = hlog[k].i + 1

\* 418, then 304, then 200 with three attempts: the call returns the 200.
C20_Witness ==
    /\ hpc = "returned"
    /\ attempts = 3
    /\ Len(Requests) = 3
    /\ ReqStatus(Requests[1]) = 418
    /\ ReqStatus(Requests[2]) = 304
    /\ IsSleep(hlog[2])
    /\ IsSleep(hlog[4])
    /\ hret.status = 200

\* The exception one request leaves in the except clause, read off the event:
\* a network exception, or the HTTPError of a 4xx/5xx status that is not retried
\* silently.
RaisedBy(ev) ==
    IF ev.out.kind = "exc" THEN ev.out.exc
    ELSE IF ev.out.status >= 400 /\ ev.out.status <= 599 /\ ev.out.status \notin retry_on
         THEN HTTPError(ev.out.status)
    ELSE None

\* C3: get never returns a non-2xx response; once every attempt has failed the
\* only step left is the raise, and what is raised is the exception of the
\* last request that raised one, or the generic failure if none did.
C3_ExhaustionRaises ==
    /\ hpc = "returned" => (hret.kind = "resp" /\ hret.status >= 200 /\ hret.status <= 299)
    /\ (hpc = "loop" /\ Len(Requests) = attempts) => (ENABLED HttpExhausted /\ ~ENABLED HttpAttempt)
    /\ hpc = "raised" =>
          LET raising == {j \in 1 .. Len(Requests) : RaisedBy(Requests[j]) # None} IN
          /\ Len(Requests) = attempts
          /\ \A j \in 1 .. Len(Requests) : ~ReqSucceeded(Requests[j])
          /\ raising = {} => hret = TransportFailure
          /\ raising # {} =>
                \E j \in raising :
                    /\ \A m \in raising : m <= j
                    /\ hret = RaisedBy(Requests[j])

\* ConnectionError, then 404, then 503: the 404's HTTPError is the last captured.
C3_Witness ==
    /\ hpc = "raised"
    /\ Len(Requests) = 3
    /\ Requests[1].out.kind = "exc"
    /\ ReqStatus(Requests[2]) = 404
    /\ ReqStatus(Requests[3]) = 503
    /\ hret = HTTPError(404)

\* ----------------------------- specification: the paths a fetch goes through
\* Environments with OPTIMUS_API_PATH_CANDLES and OPTIMUS_API_PATH_PRODUCTS set to
\* the first built-in path, a later built-in path, or a path of their own.
PathConfigs ==
    {[DefaultConfig EXCEPT !.candles_path = cp, !.products_path = pp,
                           !.explicit_perp_pid = "3136", !.explicit_opt_pid = "42"] :
        cp \in CandlesPathInputs, pp \in ProductsPathInputs}

\* One candle fetch or one catalog load, on a network whose requests may fail.
InitPaths ==
    /\ HttpIdle
    /\ FbIdle
    /\ calls_left = 1
    /\ called = ""
    /\ args = None
    /\ params = None
    /\ outcome = None
    /\ logged = <<>>
    /\ selected = None
    /\ now_utc = 1000
    /\ tie_order = "kept"
    /\ cfg \in PathConfigs
    /\ \E faults \in {{}, Faults} :
          server = [candles |-> {JsonBody(JList(<<ShortCandle(JNum(1702), 2000, JNum(2010))>>))},
                    products |-> {JsonBody(JList(SmallListing))},
                    other |-> {NoBody}, faults |-> faults]

NextPaths == GetOptionOhlcv \/ GetPerpOhlcv \/ LoadProductsCalled

SpecPaths == InitPaths /\ [][NextPaths]_vars

\* The path configured for the call made and the built-in paths behind it.
ConfiguredPath == IF called = "_load_products" THEN cfg.products_path ELSE cfg.candles_path
BuiltinPaths == IF called = "_load_products" THEN PRODUCT_PATHS ELSE CANDLE_PATHS

NoPathTwice(s) == \A a, b \in 1 .. Len(s) : s[a] = s[b] => a = b

IsPrefix(s, t) == Len(s) <= Len(t) /\ s = SubSeq(t, 1, Len(s))

\* C21: the requests of one candle fetch or one catalog load go to the
\* configured path first and then to the built-in paths other than it, in their
\* order, each path at most once; the fetch stops at any point of that list and
\* nothing is requested again after it.
C21_NoPathRequestedTwice ==
    called \in CandleMethods \cup {"_load_products"}
        => /\ NoPathTwice(wire)
           /\ IsPrefix(wire, <<ConfiguredPath>>
                               \o SelectSeq(BuiltinPaths, LAMBDA p : p # ConfiguredPath))

\* A catalog load whose configured path is the second built-in one and whose
\* every request failed: three requests, the configured path asked once.
C21_Witness ==
    /\ called = "_load_products"
    /\ cfg.products_path = "/v2/public/products"
    /\ outcome.raised
    /\ wire = <<"/v2/public/products", "/v3/public/products", "/public/products">>

\* ------------------------- specification: selection over typed listings
\* Products that differ in how the exchange names their type: with and without
\* the word "options", in either case, and a perpetual.
TypedInputs ==
    {Listed(1, "ETH-2000-C", "call_options", JNum(2000), JTime(5320)),
     Listed(2, "ETH-2100-C", "call", JNum(2100), JTime(5320)),
     Listed(3, "ETH-2200-P", "PUT", JNum(2200), JTime(5320)),
     Listed(4, "ETH-2300-C", "OPTIONS", JNum(2300), JTime(5320)),
     Listed(5, "ETH-PERP", "perpetual_futures", JNull, JTime(5320))}

TypedListings == UNION {[1 .. n -> TypedInputs] : n \in 0 .. MaxRows}

\* Auto-selection over any typed listing, on a network that answers.
InitTypes ==
    /\ HttpIdle
    /\ FbIdle
    /\ calls_left = 1
    /\ called = ""
    /\ args = None
    /\ params = None
    /\ outcome = None
    /\ logged = <<>>
    /\ selected = None
    /\ now_utc = 1000
    /\ tie_order = "kept"
    /\ cfg = [DefaultConfig EXCEPT !.explicit_perp_pid = "3136"]
    /\ \E listing \in TypedListings :
          server = [candles |-> ProbeBodies, products |-> {JsonBody(JList(listing))},
                    other |-> {NoBody}, faults |-> {}]

NextTypes == AutoSelectOptionPid

SpecTypes == InitTypes /\ [][NextTypes]_vars

\* The row's type says call, put or options, in any case.
SaysOption(r) ==
    \E word \in {"call", "put", "options"} : ContainsNoCase(AsStr(r.product_type), word)

\* C22: auto-selection over a catalog that has a row whose type contains
\* "call", "put" or "options" does not fail for want of options, and a product
\* it chooses is such a row.
C22_CallPutOrOptionsIsOption ==
    called = "_auto_select_option_pid" =>
        /\ (\E r \in Range(Catalog.value.rows) : SaysOption(r))
              => outcome # Raise(NoOptionsListed)
        /\ selected # None
              => \E r \in Range(Catalog.value.rows) :
                    SaysOption(r) /\ r.product_id.v = selected.pid

====
